---- MODULE Spec2Model ----
(***************************************************************************)
(* Sniffle: the allergy-risk engine (src/utils/helpers.js) and the history *)
(* analyses of the backend (src/backend/ml_models/data_processor.js).      *)
(*                                                                         *)
(* Conventions                                                             *)
(*  - an optional JavaScript value is Absent (undefined) or Some(v);       *)
(*  - strings are TLA+ strings, searched character by character;           *)
(*  - numbers that the code computes as fractions (severity multipliers,   *)
(*    means, category weights) are exact rationals [n, d], so a model      *)
(*    value is the real number the IEEE double of the code approximates;   *)
(*  - instants are whole hours of a calendar of 30-day months.             *)
(***************************************************************************)
EXTENDS Integers, Sequences, FiniteSets, TLC

VARIABLES
    clock,              \* the wall clock that new Date() reads
    pc,                 \* position of calculateAllergyRisk
    environmentalData,  \* argument 1 of calculateAllergyRisk
    userData,           \* argument 2 of calculateAllergyRisk
    riskFactors,        \* local: the four category totals
    detailedFactors,    \* local: factor strings of the environment
    personalFactors,    \* local: factor strings of the profile
    subScores,          \* local: scores of pollenData, airQualityData, weatherData
    confidence,         \* local: confidence (0.7 or 0.95)
    weights,            \* local: the category weights of the call
    result,             \* value returned (or the exception raised)
    prev,               \* value returned by the previous call with the same arguments
    called,             \* DataProcessor: the method called last
    history,            \* DataProcessor: severityHistory argument
    foodLogs,           \* DataProcessor: foodLogs argument
    patterns,           \* DataProcessor: result of extractTemporalPatterns
    correlations,       \* DataProcessor: result of analyzeFoodCorrelations
    fetchPc,            \* fetchEnvironmentalData: position of the top-level call
    retryCount,         \* fetchEnvironmentalData: parameter of the running invocation
    attempts,           \* fetchEnvironmentalData: backend requests made by the call
    failures,           \* fetchEnvironmentalData: the errors caught so far, in order
    fetched,            \* fetchEnvironmentalData: value returned or error thrown
    appUser,            \* App: state user (a uid, or absent)
    setupComplete,      \* App: state setupComplete
    initializing,       \* App: state initializing
    reads,              \* App: the getDoc calls awaited by handleAuthStateChanged
    userDocs,           \* Firestore: the documents of collection users
    authUser,           \* UserProvider: the user Firebase reported last
    listeners,          \* UserProvider: subscribed onSnapshot listeners
    unsubscribeUserSnapshot, \* UserProvider: the closure variable of the effect
    contextUserData,    \* UserProvider: state userData
    loading,            \* UserProvider: state loading
    mounted,            \* UserProvider: the effect is set up and not cleaned up
    delivered,          \* UserProvider: the snapshot delivered last
    predictData,        \* AllergySeverityPredictor: argument of predict
    prediction          \* AllergySeverityPredictor: value returned by predict

riskVars == <<clock, pc, environmentalData, userData, riskFactors, subScores,
              detailedFactors, personalFactors, confidence, weights, result, prev>>
dataVars == <<called, history, foodLogs, patterns, correlations>>
fetchVars == <<fetchPc, retryCount, attempts, failures, fetched>>
appVars == <<appUser, setupComplete, initializing, reads, userDocs>>
providerVars == <<authUser, listeners, unsubscribeUserSnapshot, contextUserData,
                  loading, mounted, delivered>>
predictVars == <<predictData, prediction>>
otherVars == <<fetchVars, appVars, providerVars, predictVars>>
vars == <<riskVars, dataVars, otherVars>>

(***************************************************************************)
(* Bounds of the model                                                     *)
(***************************************************************************)
MaxClock == 3       \* number of instants the wall clock passes through
MaxReactions == 3   \* length of the longest reaction history of a profile
MaxHistory == 3     \* length of the longest severityHistory of the DataProcessor
MaxLogs == 2        \* length of the longest foodLogs of the DataProcessor
MaxCorrelated == 2  \* length of the longest severityHistory correlated with foodLogs

(***************************************************************************)
(* JavaScript values                                                       *)
(***************************************************************************)
Absent == <<>>
Some(v) == <<v>>
Val(x) == x[1]
IsAbsent(x) == x = Absent

\* x || d for a number: undefined and 0 are falsy
NumOr(x, d) == IF IsAbsent(x) \/ Val(x) = 0 THEN d ELSE Val(x)
\* x || d for an array or an object: only undefined is falsy
ObjOr(x, d) == IF IsAbsent(x) THEN d ELSE Val(x)

Min(a, b) == IF a <= b THEN a ELSE b
Max(a, b) == IF a >= b THEN a ELSE b

RECURSIVE SeqSum(_)
SeqSum(s) == IF s = <<>> THEN 0 ELSE Head(s) + SeqSum(Tail(s))

RECURSIVE Flatten(_)
Flatten(ss) == IF ss = <<>> THEN <<>> ELSE Head(ss) \o Flatten(Tail(ss))

Range(s) == {s[i] : i \in 1..Len(s)}

(***************************************************************************)
(* Strings                                                                 *)
(***************************************************************************)
UpperChars == "ABCDEFGHIJKLMNOPQRSTUVWXYZ"
LowerChars == "abcdefghijklmnopqrstuvwxyz"

CharAt(s, i) == SubSeq(s, i, i)

\* the lower-case letter of each upper-case letter
LowerOf == [c \in {CharAt(UpperChars, i) : i \in 1..26} |->
               CharAt(LowerChars, CHOOSE i \in 1..26 : CharAt(UpperChars, i) = c)]

LowerChar(c) == IF c \in DOMAIN LowerOf THEN LowerOf[c] ELSE c

\* String.prototype.toLowerCase
RECURSIVE toLowerCase(_)
toLowerCase(s) ==
    IF Len(s) = 0 THEN ""
    ELSE LowerChar(CharAt(s, 1)) \o toLowerCase(SubSeq(s, 2, Len(s)))

\* String.prototype.includes
includes(s, t) == \E i \in 0..(Len(s) - Len(t)) : SubSeq(s, i + 1, i + Len(t)) = t

\* String.prototype.split(' ')
RECURSIVE split(_)
split(s) ==
    IF \E i \in 1..Len(s) : CharAt(s, i) = " "
    THEN LET i == CHOOSE k \in 1..Len(s) :
                    /\ CharAt(s, k) = " "
                    /\ \A j \in 1..(k - 1) : CharAt(s, j) # " "
         IN  <<SubSeq(s, 1, i - 1)>> \o split(SubSeq(s, i + 1, Len(s)))
    ELSE <<s>>

\* Array.prototype.join(', ')
RECURSIVE join(_)
join(ss) ==
    IF ss = <<>> THEN ""
    ELSE IF Len(ss) = 1 THEN ss[1]
    ELSE ss[1] \o ", " \o join(Tail(ss))

(***************************************************************************)
(* Exact rationals                                                         *)
(***************************************************************************)
Abs(a) == IF a < 0 THEN -a ELSE a

RECURSIVE GCD(_, _)
GCD(a, b) == IF b = 0 THEN a ELSE GCD(b, a % b)

Q(n, d) ==
    LET g == GCD(Abs(n), d)
    IN  IF n = 0 THEN [n |-> 0, d |-> 1] ELSE [n |-> n \div g, d |-> d \div g]
QInt(a) == [n |-> a, d |-> 1]
QAdd(x, y) == Q(x.n * y.d + y.n * x.d, x.d * y.d)
QSub(x, y) == Q(x.n * y.d - y.n * x.d, x.d * y.d)
QMul(x, y) == Q(x.n * y.n, x.d * y.d)
QDivInt(x, k) == Q(x.n, x.d * k)
QLe(x, y) == x.n * y.d <= y.n * x.d
QLt(x, y) == x.n * y.d < y.n * x.d
QMin(x, y) == IF QLe(x, y) THEN x ELSE y
QMax(x, y) == IF QLe(x, y) THEN y ELSE x
\* Math.round: the nearest integer, a half rounding towards +Infinity
MathRound(x) == (2 * x.n + x.d) \div (2 * x.d)

RECURSIVE QSum(_)
QSum(s) == IF s = <<>> THEN QInt(0) ELSE QAdd(Head(s), QSum(Tail(s)))

(***************************************************************************)
(* The calendar: instants are hours; a month has 30 days                   *)
(***************************************************************************)
HoursPerDay == 24
DaysPerMonth == 30
HoursPerMonth == HoursPerDay * DaysPerMonth

getHours(t) == t % HoursPerDay
getDay(t) == (t \div HoursPerDay) % 7
getMonth(t) == (t \div HoursPerMonth) % 12

(***************************************************************************)
(* src/utils/helpers.js: the environmental analyzers                       *)
(*                                                                         *)
(* An analyzer returns [score, factors, threw]; threw says that the code   *)
(* read a property of undefined (a TypeError), which ends the call.        *)
(***************************************************************************)
Part(s, f) == [s |-> s, f |-> f]
NoPart == Part(0, <<>>)

\* x?.toLowerCase()
OptLower(x) == IF IsAbsent(x) THEN Absent ELSE Some(toLowerCase(Val(x)))
\* x?.toLowerCase() || ''
LowerOrEmpty(x) == IF IsAbsent(x) THEN "" ELSE toLowerCase(Val(x))

highRiskTypes == {"ragweed", "birch", "oak", "grass"}

PollenCap == 50
AirQualityCap == 40
WeatherCap == 20

analyzePollenRisk(env) ==
    LET pollenRisk  == OptLower(env.pollen_risk)
        pollenCount == NumOr(env.pollen_count, 0)
        pollenTypes == ObjOr(env.pollen_types, <<>>)
        base ==
            IF pollenRisk = Some("very_low") THEN Part(2, <<>>)
            ELSE IF pollenRisk = Some("low") THEN Part(8, <<"Low pollen levels detected">>)
            ELSE IF pollenRisk = Some("moderate") THEN Part(20, <<"Moderate pollen levels present">>)
            ELSE IF pollenRisk = Some("high") THEN Part(35, <<"High pollen concentration">>)
            ELSE IF pollenRisk = Some("very_high")
                 THEN Part(50, <<"Very high pollen levels - peak allergen exposure">>)
            ELSE NoPart
        detectedHighRisk ==
            SelectSeq(pollenTypes,
                      LAMBDA type : \E risk \in highRiskTypes : includes(toLowerCase(type), risk))
        types ==
            IF Len(pollenTypes) > 0 /\ Len(detectedHighRisk) > 0
            THEN Part(Len(detectedHighRisk) * 5,
                      <<"High-allergenicity pollen detected: " \o join(detectedHighRisk)>>)
            ELSE NoPart
        count ==
            IF pollenCount > 1000
            THEN Part(15, <<"Very high pollen count: " \o ToString(pollenCount) \o " grains/m3">>)
            ELSE IF pollenCount > 500
            THEN Part(8, <<"High pollen count: " \o ToString(pollenCount) \o " grains/m3">>)
            ELSE NoPart
    IN  [score   |-> Min(base.s + types.s + count.s, PollenCap),
         factors |-> base.f \o types.f \o count.f,
         threw   |-> FALSE]

analyzeAirQuality(env) ==
    LET aqi   == IF ~IsAbsent(env.air_quality) /\ Val(env.air_quality) # 0
                 THEN env.air_quality ELSE env.aqi
        pm25  == env.pm25
        ozone == env.ozone
        index ==
            IF IsAbsent(aqi) THEN NoPart
            ELSE IF Val(aqi) <= 50 THEN NoPart
            ELSE IF Val(aqi) <= 100
                 THEN Part(5, <<"Moderate air quality may affect sensitive individuals">>)
            ELSE IF Val(aqi) <= 150
                 THEN Part(15, <<"Unhealthy air quality for sensitive groups">>)
            ELSE IF Val(aqi) <= 200
                 THEN Part(25, <<"Unhealthy air quality - respiratory irritation likely">>)
            ELSE Part(35, <<"Very unhealthy air quality - avoid outdoor activities">>)
        fine ==
            IF ~IsAbsent(pm25) /\ Val(pm25) > 55
            THEN Part(10, <<"High PM2.5 levels (" \o ToString(Val(pm25))
                              \o " ug/m3) - respiratory irritant">>)
            ELSE NoPart
        oz ==
            IF ~IsAbsent(ozone) /\ Val(ozone) > 140
            THEN Part(8, <<"Elevated ozone levels - may trigger respiratory symptoms">>)
            ELSE NoPart
    IN  [score   |-> Min(index.s + fine.s + oz.s, AirQualityCap),
         factors |-> index.f \o fine.f \o oz.f,
         threw   |-> FALSE]

analyzeWeatherImpact(env) ==
    LET weather     == LowerOrEmpty(env.weather_condition)
        humidity    == NumOr(env.humidity, 0)
        windSpeed   == NumOr(env.wind_speed, 0)
        temperature == NumOr(env.temperature, 20)
        pressure    == env.barometric_pressure
        cond ==
            IF includes(weather, "thunderstorm") \/ includes(weather, "storm")
            THEN Part(-5, <<"Thunderstorms help clear airborne allergens">>)
            ELSE IF includes(weather, "rain")
            THEN Part(-3, <<"Rain reduces pollen and dust particles">>)
            ELSE IF includes(weather, "wind") /\ windSpeed > 15
            THEN Part(8, <<"Strong winds dispersing allergens widely">>)
            ELSE IF windSpeed > 8
            THEN Part(4, <<"Moderate winds spreading pollen">>)
            ELSE NoPart
        hum ==
            IF humidity > 80
            THEN Part(6, <<"Very high humidity promoting mold growth">>)
            ELSE IF humidity > 60
            THEN Part(3, <<"Elevated humidity may increase mold spores">>)
            ELSE IF humidity < 30
            THEN Part(2, <<"Low humidity may increase dust and irritants">>)
            ELSE NoPart
        temp ==
            IF temperature > 25 /\ humidity > 50
            THEN Part(3, <<"Warm, humid conditions favor allergen production">>)
            ELSE NoPart
        press ==
            IF ~IsAbsent(pressure) /\ Val(pressure) < 1000
            THEN Part(2, <<"Low pressure system may increase sinus pressure">>)
            ELSE NoPart
    IN  [score   |-> Min(cond.s + hum.s + temp.s + press.s, WeatherCap),
         factors |-> cond.f \o hum.f \o temp.f \o press.f,
         threw   |-> FALSE]

(***************************************************************************)
(* src/utils/helpers.js: the personal analyzers                            *)
(*                                                                         *)
(* user is the optional userData; reading a field of an absent userData,   *)
(* or the length of an absent list, is the TypeError reported by threw.    *)
(***************************************************************************)
EmptyUser ==
    [allergens |-> Absent, allergy_severity |-> Absent, allergy_reactions |-> Absent,
     food_logs |-> Absent, medications |-> Absent, recent_medication_taken |-> Absent,
     activity_patterns |-> Absent]

\* the fields of userData, readable when userData is null only by throwing
Fields(user) == IF IsAbsent(user) THEN EmptyUser ELSE Val(user)

\* the list read without its default
OrEmptyList_NoDefault(x) == x

\* x || [] as a reference: never undefined
OrEmptyList(x) == IF IsAbsent(x) THEN Some(<<>>) ELSE x
\* the elements of a list reference (none when the reference is undefined)
Elems(ref) == IF IsAbsent(ref) THEN <<>> ELSE Val(ref)

ProfileCap == 40
HistoricalCap == 20
ExposureCap == 25
MedicationMin == -10
MedicationMax == 10

\* severityLevel === 'severe' ? 1.5 : severityLevel === 'mild' ? 0.7 : 1.0
Multiplier(severityLevel) ==
    IF severityLevel = "severe" THEN Q(3, 2)
    ELSE IF severityLevel = "mild" THEN Q(7, 10)
    ELSE QInt(1)

\* the body of the loop of analyzeAllergyProfile for one allergen
AllergenContribution(allergen, severity, env) ==
    LET allergenLower == toLowerCase(allergen)
        severityLevel == IF allergen \in DOMAIN severity /\ severity[allergen] # ""
                         THEN severity[allergen] ELSE "moderate"
        multiplier == Multiplier(severityLevel)
        pollenRisk == OptLower(env.pollen_risk)
        pollen ==
            IF \E k \in {"pollen", "grass", "tree", "weed", "ragweed", "birch"} :
                    includes(allergenLower, k)
            THEN IF pollenRisk = Some("very_high")
                 THEN <<Part(QMul(QInt(20), multiplier),
                             <<"Very high " \o allergen \o " pollen matches your severe allergy">>)>>
                 ELSE IF pollenRisk = Some("high")
                 THEN <<Part(QMul(QInt(15), multiplier),
                             <<"High " \o allergen \o " levels detected - matches your allergy profile">>)>>
                 ELSE IF pollenRisk = Some("moderate")
                 THEN <<Part(QMul(QInt(8), multiplier),
                             <<"Moderate " \o allergen \o " levels may trigger symptoms">>)>>
                 ELSE <<>>
            ELSE <<>>
        aqi == NumOr(env.air_quality, 0)
        humidity == NumOr(env.humidity, 0)
        dust ==
            IF \E k \in {"dust", "mold", "mildew"} : includes(allergenLower, k)
            THEN (IF aqi >= 3
                  THEN <<Part(QMul(QInt(10), multiplier),
                              <<"Poor air quality affects your " \o allergen \o " sensitivity">>)>>
                  ELSE <<>>)
                 \o
                 (IF humidity > 70
                  THEN <<Part(QMul(QInt(8), multiplier),
                              <<"High humidity promotes " \o allergen \o " growth">>)>>
                  ELSE <<>>)
            ELSE <<>>
        pet ==
            IF /\ \E k \in {"pet", "cat", "dog", "dander"} : includes(allergenLower, k)
               /\ ~IsAbsent(env.air_quality) /\ Val(env.air_quality) >= 3
            THEN <<Part(QMul(QInt(5), multiplier),
                        <<"Poor outdoor air may increase indoor pet allergen exposure">>)>>
            ELSE <<>>
    IN  pollen \o dust \o pet

RECURSIVE AllergenContributions(_, _, _)
AllergenContributions(allergens, severity, env) ==
    IF allergens = <<>> THEN <<>>
    ELSE AllergenContribution(Head(allergens), severity, env)
         \o AllergenContributions(Tail(allergens), severity, env)

PartScores(parts) == [i \in 1..Len(parts) |-> parts[i].s]
PartFactors(parts) == Flatten([i \in 1..Len(parts) |-> parts[i].f])

analyzeAllergyProfile(user, env) ==
    LET u == Fields(user)
        allergensRef == OrEmptyList(u.allergens)
        userAllergens == Elems(allergensRef)
        severity == ObjOr(u.allergy_severity, <<>>)
        parts == AllergenContributions(userAllergens, severity, env)
    IN  [score   |-> QMin(QSum(PartScores(parts)), QInt(ProfileCap)),
         factors |-> PartFactors(parts),
         threw   |-> IsAbsent(user) \/ IsAbsent(allergensRef)]

\* r.severity || 3
SeverityOr3(r) == NumOr(r.severity, 3)

analyzeHistoricalPatterns(user, env, now) ==
    LET u == Fields(user)
        reactionsRef == OrEmptyList(u.allergy_reactions)
        reactions == Elems(reactionsRef)
        currentMonth == getMonth(now)
        currentWeather == LowerOrEmpty(env.weather_condition)
        \* an absent timestamp makes an Invalid Date, whose month is NaN
        seasonalReactions ==
            SelectSeq(reactions,
                      LAMBDA r : ~IsAbsent(r.timestamp) /\ getMonth(Val(r.timestamp)) = currentMonth)
        n == Len(seasonalReactions)
        sevSum == SeqSum([i \in 1..n |-> SeverityOr3(seasonalReactions[i])])
        seasonal ==
            IF n > 0
            THEN <<Part(QMin(QAdd(QInt(n * 3), Q(2 * sevSum, n)), QInt(15)),
                        <<"Historical pattern: " \o ToString(n) \o " reactions in similar conditions">>)>>
            ELSE <<>>
        weatherReactions ==
            SelectSeq(reactions,
                      LAMBDA r : includes(LowerOrEmpty(r.weather_condition),
                                          split(currentWeather)[1]))
        weather ==
            IF Len(weatherReactions) > 2
            THEN <<Part(QInt(8),
                        <<"Weather pattern match: increased risk in " \o currentWeather \o " conditions">>)>>
            ELSE <<>>
        parts == seasonal \o weather
    IN  [score   |-> QMin(QSum(PartScores(parts)), QInt(HistoricalCap)),
         factors |-> PartFactors(parts),
         threw   |-> IsAbsent(user) \/ IsAbsent(reactionsRef)]

HoursPerWeek == 7 * HoursPerDay

\* the last two elements: Array.prototype.slice(-2)
sliceLast2(s) == IF Len(s) <= 2 THEN s ELSE SubSeq(s, Len(s) - 1, Len(s))

analyzeRecentExposure(user, now) ==
    LET u == Fields(user)
        \* userData.allergy_reactions?.filter(...) || []
        reactions == ObjOr(u.allergy_reactions, <<>>)
        recentReactions ==
            SelectSeq(reactions,
                      LAMBDA r : ~IsAbsent(r.timestamp) /\ now - Val(r.timestamp) <= HoursPerWeek)
        n == Len(recentReactions)
        severityBonus == SeqSum([i \in 1..n |-> SeverityOr3(recentReactions[i])])
        recent ==
            IF n > 0
            THEN Part(Min(n * 4 + severityBonus, 20),
                      <<ToString(n) \o " recent reaction" \o (IF n > 1 THEN "s" ELSE "")
                          \o " increase sensitivity">>)
            ELSE NoPart
        recentFoodLogs == sliceLast2(ObjOr(u.food_logs, <<>>))
        allergensRef == OrEmptyList(u.allergens)
        userAllergens == Elems(allergensRef)
        foodAllergens ==
            SelectSeq(userAllergens,
                      LAMBDA a : /\ ~includes(toLowerCase(a), "pollen")
                                 /\ ~includes(toLowerCase(a), "dust")
                                 /\ ~includes(toLowerCase(a), "mold"))
        recentFoods == Flatten([i \in 1..Len(recentFoodLogs) |-> ObjOr(recentFoodLogs[i].items, <<>>)])
        foundExposure(allergen) ==
            \E i \in 1..Len(recentFoods) :
                \/ \E word \in Range(split(toLowerCase(allergen))) :
                        includes(toLowerCase(recentFoods[i]), word)
                \/ includes(toLowerCase(recentFoods[i]), toLowerCase(allergen))
        exposed == SelectSeq(foodAllergens, foundExposure)
        food ==
            IF Len(recentFoodLogs) > 0 /\ Len(foodAllergens) > 0 /\ Len(exposed) > 0
            THEN Part(8, <<"Recent " \o exposed[1] \o " consumption may heighten overall sensitivity">>)
            ELSE NoPart
    IN  [score   |-> QInt(Min(recent.s + food.s, ExposureCap)),
         factors |-> recent.f \o food.f,
         threw   |-> IsAbsent(user) \/ IsAbsent(allergensRef)]

\* med.type?.toLowerCase().includes(k): undefined (falsy) when the field is absent
OptIncludes(x, k) == ~IsAbsent(x) /\ includes(toLowerCase(Val(x)), k)

analyzeMedicationImpact(user) ==
    LET u == Fields(user)
        medicationsRef == OrEmptyList(u.medications)
        medications == Elems(medicationsRef)
        recentMedication == ~IsAbsent(u.recent_medication_taken) /\ Val(u.recent_medication_taken)
        allergyMeds ==
            SelectSeq(medications,
                      LAMBDA med : \/ OptIncludes(med.type, "antihistamine")
                                   \/ OptIncludes(med.name, "claritin")
                                   \/ OptIncludes(med.name, "zyrtec")
                                   \/ OptIncludes(med.name, "allegra")
                                   \/ OptIncludes(med.name, "benadryl")
                                   \/ OptIncludes(med.type, "steroid"))
        allergy ==
            IF Len(allergyMeds) > 0 /\ recentMedication
            THEN Part(-10, <<"Current allergy medications provide protection">>)
            ELSE IF Len(allergyMeds) > 0 /\ ~recentMedication
            THEN Part(5, <<"Allergy medication not taken recently - increased vulnerability">>)
            ELSE NoPart
        sensitizingMeds ==
            SelectSeq(medications,
                      LAMBDA med : \/ OptIncludes(med.type, "ace inhibitor")
                                   \/ OptIncludes(med.name, "aspirin"))
        sensitizing ==
            IF Len(sensitizingMeds) > 0
            THEN Part(3, <<"Some medications may increase allergic sensitivity">>)
            ELSE NoPart
    IN  [score   |-> QInt(Max(MedicationMin, Min(allergy.s + sensitizing.s, MedicationMax))),
         factors |-> allergy.f \o sensitizing.f,
         threw   |-> IsAbsent(user) \/ IsAbsent(medicationsRef)]

(***************************************************************************)
(* src/utils/helpers.js: temporal and synergistic analyzers                *)
(***************************************************************************)
TemporalCap == 15
SynergisticCap == 15

highPollenMonths == {2, 3, 4, 8, 9}

\* userData?.activity_patterns and activity_patterns[bucket]?.outdoor_time || 0
OutdoorTime(user, bucket) ==
    LET activityPatterns == Val(Val(user).activity_patterns)
    IN  IF IsAbsent(activityPatterns[bucket]) THEN 0
        ELSE NumOr(Val(activityPatterns[bucket]).outdoor_time, 0)

analyzeTemporalFactors(env, user, now) ==
    LET currentHour == getHours(now)
        currentDay == getDay(now)
        currentMonth == getMonth(now)
        hour ==
            IF currentHour >= 6 /\ currentHour <= 10
            THEN Part(3, <<"Morning hours show peak pollen release">>)
            ELSE IF currentHour >= 17 /\ currentHour <= 20
            THEN Part(2, <<"Evening pollen descent increases ground-level exposure">>)
            ELSE NoPart
        season ==
            IF currentMonth \in highPollenMonths
            THEN Part(4, <<"Peak allergy season increases baseline risk">>)
            ELSE NoPart
        isWeekend == currentDay = 0 \/ currentDay = 6
        activity ==
            IF /\ ~IsAbsent(user)
               /\ ~IsAbsent(Val(user).activity_patterns)
               /\ OutdoorTime(user, IF isWeekend THEN "weekend" ELSE "weekday") > 4
            THEN Part(5, <<"High outdoor activity increases allergen exposure">>)
            ELSE NoPart
    IN  [score   |-> Min(hour.s + season.s + activity.s, TemporalCap),
         factors |-> hour.f \o season.f \o activity.f,
         threw   |-> FALSE]

\* userData?.allergens?.length > 3
ManyAllergens(user) ==
    /\ ~IsAbsent(user)
    /\ ~IsAbsent(Val(user).allergens)
    /\ Len(Val(Val(user).allergens)) > 3

analyzeSynergisticEffects(env, user, factorsSoFar) ==
    LET totalEnvironmentalRisk == factorsSoFar.environmental
        totalPersonalRisk == factorsSoFar.personal
        combined ==
            IF QLt(QInt(30), totalEnvironmentalRisk) /\ QLt(QInt(20), totalPersonalRisk)
            THEN Part(8, <<"High environmental and personal risk factors compound each other">>)
            ELSE NoPart
        multiple ==
            IF ManyAllergens(user) /\ env.pollen_risk = Some("high")
            THEN Part(5, <<"Multiple allergen sensitivities increase overall reactivity">>)
            ELSE NoPart
        aqi == NumOr(env.air_quality, 0)
        pollenRisk == OptLower(env.pollen_risk)
        air ==
            IF aqi >= 3 /\ (pollenRisk = Some("high") \/ pollenRisk = Some("very_high"))
            THEN Part(6, <<"Poor air quality traps and concentrates pollen particles">>)
            ELSE NoPart
        humidity == NumOr(env.humidity, 0)
        windSpeed == NumOr(env.wind_speed, 0)
        humid ==
            IF humidity > 70 /\ windSpeed > 5 /\ pollenRisk # Some("low")
            THEN Part(4, <<"Humid, windy conditions maximize allergen dispersal and mold growth">>)
            ELSE NoPart
    IN  [score   |-> Min(combined.s + multiple.s + air.s + humid.s, SynergisticCap),
         factors |-> combined.f \o multiple.f \o air.f \o humid.f,
         threw   |-> FALSE]

(***************************************************************************)
(* src/utils/helpers.js: classification and recommendations                *)
(***************************************************************************)
\* the classification without the confidence discount
determineRiskLevel_NoDiscount(score, conf) ==
    IF QLe(score, QInt(15))
    THEN [level |-> "low", description |-> "Low Risk", color |-> "#4caf50"]
    ELSE IF QLe(score, QInt(35))
    THEN [level |-> "moderate", description |-> "Moderate Risk", color |-> "#ff9800"]
    ELSE IF QLe(score, QInt(60))
    THEN [level |-> "high", description |-> "High Risk", color |-> "#f44336"]
    ELSE [level |-> "very_high", description |-> "Very High Risk", color |-> "#d32f2f"]

determineRiskLevel(score, conf) ==
    LET confidenceAdjustment == IF QLt(conf, Q(8, 10)) THEN Q(9, 10) ELSE QInt(1)
        adjustedScore == QMul(score, confidenceAdjustment)
    IN  IF QLe(adjustedScore, QInt(15))
        THEN [level |-> "low", description |-> "Low Risk", color |-> "#4caf50"]
        ELSE IF QLe(adjustedScore, QInt(35))
        THEN [level |-> "moderate", description |-> "Moderate Risk", color |-> "#ff9800"]
        ELSE IF QLe(adjustedScore, QInt(60))
        THEN [level |-> "high", description |-> "High Risk", color |-> "#f44336"]
        ELSE [level |-> "very_high", description |-> "Very High Risk", color |-> "#d32f2f"]

\* [...new Set(list)]: the first occurrence of each element, in order
RECURSIVE Dedup(_)
Dedup(s) ==
    IF s = <<>> THEN <<>>
    ELSE LET init == Dedup(SubSeq(s, 1, Len(s) - 1))
             last == s[Len(s)]
         IN  IF last \in Range(init) THEN init ELSE Append(init, last)

\* a match of whole factors only
SomeIncludes_Whole(factors, k) == \E i \in 1..Len(factors) : factors[i] = k

\* factors.some(f => f.includes(k))
SomeIncludes(factors, k) == \E i \in 1..Len(factors) : includes(factors[i], k)

\* userData.allergens?.length > 0
HasAllergens(user) ==
    /\ ~IsAbsent(Fields(user).allergens)
    /\ Len(Val(Fields(user).allergens)) > 0

generateEnhancedRecommendations(level, factors, user, env) ==
    LET hasPersonalData == ~IsAbsent(user)
        base ==
            IF level = "low"
            THEN <<"Enjoy outdoor activities with minimal precautions">>
                 \o (IF hasPersonalData /\ HasAllergens(user)
                     THEN <<"Keep rescue medication handy as a precaution">> ELSE <<>>)
            ELSE IF level = "moderate"
            THEN <<"Consider limiting outdoor time during peak hours (6-10 AM)",
                   "Close windows and use air conditioning when possible">>
                 \o (IF hasPersonalData
                     THEN <<"Take preventive allergy medication as prescribed">> ELSE <<>>)
            ELSE IF level = "high"
            THEN <<"Limit outdoor activities, especially during morning hours",
                   "Keep windows closed and use HEPA air filters indoors",
                   "Shower and change clothes after being outdoors">>
                 \o (IF hasPersonalData
                     THEN <<"Consider taking allergy medication before exposure",
                            "Have rescue medication readily available">> ELSE <<>>)
            ELSE IF level = "very_high"
            THEN <<"Avoid outdoor activities if possible",
                   "Stay indoors with air purification systems running",
                   "If you must go out, wear a pollen-filtering mask">>
                 \o (IF hasPersonalData
                     THEN <<"Take all prescribed allergy medications",
                            "Consider consulting your allergist for additional protection">>
                     ELSE <<>>)
            ELSE <<>>
        pollen ==
            IF SomeIncludes(factors, "pollen")
            THEN <<"Check pollen forecasts before planning outdoor activities">> ELSE <<>>
        air ==
            IF SomeIncludes(factors, "air quality")
            THEN <<"Use air quality apps to monitor conditions throughout the day">> ELSE <<>>
        mold ==
            IF SomeIncludes(factors, "humidity") \/ SomeIncludes(factors, "mold")
            THEN <<"Use dehumidifiers to keep indoor humidity below 50%">> ELSE <<>>
        wind ==
            IF SomeIncludes(factors, "wind")
            THEN <<"Avoid outdoor exercise on windy days">> ELSE <<>>
        medication ==
            IF hasPersonalData /\ Fields(user).recent_medication_taken = Some(FALSE)
            THEN <<"Consider taking your allergy medication as prescribed">> ELSE <<>>
    IN  Dedup(base \o pollen \o air \o mold \o wind \o medication)

(***************************************************************************)
(* src/utils/helpers.js: calculateAllergyRisk                              *)
(*                                                                         *)
(* The call is synchronous; it reads the wall clock in                     *)
(* analyzeHistoricalPatterns, in analyzeRecentExposure and in              *)
(* analyzeTemporalFactors, and the clock may advance between these reads.  *)
(* The call is therefore cut at its clock reads:                           *)
(*   Call / CallAgain   lines 18-64  entry, environment, allergy profile   *)
(*   Historical         lines 66-69                                        *)
(*   Exposure           lines 71-79  recent exposure and medication        *)
(*   Score              lines 82-128 temporal, synergistic, score, return  *)
(***************************************************************************)
NoResult == [pending |-> TRUE]
TypeError == [exception |-> "TypeError"]

\* a degraded result that looks like an assessment of the normal pipeline
DegradedResult_AsLow ==
    [level           |-> "low",
     score           |-> 0,
     description     |-> "Low Risk",
     recommendations |-> <<"Check back when environmental data is available">>,
     confidence      |-> 70]

DegradedResult ==
    [level           |-> "unknown",
     score           |-> 0,
     description     |-> "Unable to assess - insufficient data",
     recommendations |-> <<"Check back when environmental data is available">>,
     confidence      |-> 0]

NoRiskFactors ==
    [environmental |-> QInt(0), personal |-> QInt(0),
     temporal |-> QInt(0), synergistic |-> QInt(0)]
NoSubScores == [pollen |-> 0, air |-> 0, weather |-> 0]
NoWeights == NoRiskFactors

BaseConfidence == Q(7, 10)
\* the confidence 1.0 for a call with a profile
PersonalConfidence_Full == QInt(1)
PersonalConfidence == Q(95, 100)

\* the weights named by the section comments of the code (40% and 50%)
Weights_AsCommented(user) ==
    IF ~IsAbsent(user)
    THEN [environmental |-> Q(40, 100), personal |-> Q(50, 100),
          temporal |-> Q(10, 100), synergistic |-> Q(10, 100)]
    ELSE [environmental |-> Q(70, 100), personal |-> QInt(0),
          temporal |-> Q(20, 100), synergistic |-> Q(10, 100)]

\* the weights of the score, chosen by userData being given
Weights(user) ==
    IF ~IsAbsent(user)
    THEN [environmental |-> Q(35, 100), personal |-> Q(45, 100),
          temporal |-> Q(10, 100), synergistic |-> Q(10, 100)]
    ELSE [environmental |-> Q(70, 100), personal |-> QInt(0),
          temporal |-> Q(20, 100), synergistic |-> Q(10, 100)]

WeightSum(w) == QSum(<<w.environmental, w.personal, w.temporal, w.synergistic>>)

\* a clamp that acts on the totals the pipeline produces
TotalScore_ClampedAtHalf(rf, w) ==
    QMin(QSum(<<QMul(rf.environmental, w.environmental),
                QMul(rf.personal, w.personal),
                QMul(rf.temporal, w.temporal),
                QMul(rf.synergistic, w.synergistic)>>),
         QInt(50))

\* lines 99-104: the weighted sum, limited to 100 from above
TotalScore(rf, w) ==
    QMin(QSum(<<QMul(rf.environmental, w.environmental),
                QMul(rf.personal, w.personal),
                QMul(rf.temporal, w.temporal),
                QMul(rf.synergistic, w.synergistic)>>),
         QInt(100))

\* lines 113-128: the object returned
Assessment(riskLevel, totalScore, allFactors, recommendations, user, conf, rf, w) ==
    [level             |-> riskLevel.level,
     score             |-> MathRound(totalScore),
     description       |-> riskLevel.description,
     color             |-> riskLevel.color,
     factors           |-> IF Len(allFactors) > 0 THEN allFactors
                           ELSE <<"Environmental conditions assessed">>,
     recommendations   |-> recommendations,
     personalizedScore |-> ~IsAbsent(user),
     confidence        |-> MathRound(QMul(conf, QInt(100))),
     breakdown         |->
        [environmental |-> MathRound(QMul(rf.environmental, w.environmental)),
         personal      |-> MathRound(QMul(rf.personal, w.personal)),
         temporal      |-> MathRound(QMul(rf.temporal, w.temporal)),
         synergistic   |-> MathRound(QMul(rf.synergistic, w.synergistic))]]

\* the exception leaves the call
Throw ==
    /\ pc' = "threw"
    /\ result' = TypeError
    /\ UNCHANGED <<riskFactors, subScores, detailedFactors, personalFactors,
                   confidence, weights>>

\* lines 18-64 for the arguments env, user
Enter(env, user) ==
    /\ environmentalData' = env
    /\ userData' = user
    /\ IF IsAbsent(env)
       THEN /\ pc' = "done"
            /\ result' = DegradedResult
            /\ riskFactors' = NoRiskFactors
            /\ subScores' = NoSubScores
            /\ detailedFactors' = <<>>
            /\ personalFactors' = <<>>
            /\ confidence' = QInt(0)
            /\ weights' = NoWeights
       ELSE LET e == Val(env)
                pollenData == analyzePollenRisk(e)
                airQualityData == analyzeAirQuality(e)
                weatherData == analyzeWeatherImpact(e)
                environmental == pollenData.score + airQualityData.score + weatherData.score
                allergyProfile == analyzeAllergyProfile(user, e)
            IN  /\ subScores' = [pollen |-> pollenData.score, air |-> airQualityData.score,
                                 weather |-> weatherData.score]
                /\ detailedFactors' = pollenData.factors \o airQualityData.factors
                                        \o weatherData.factors
                /\ weights' = NoWeights
                /\ result' = IF ~IsAbsent(user) /\ allergyProfile.threw
                              THEN TypeError ELSE NoResult
                /\ IF ~IsAbsent(user)
                   THEN /\ confidence' = PersonalConfidence
                        /\ riskFactors' = [NoRiskFactors EXCEPT
                                             !.environmental = QInt(environmental),
                                             !.personal = allergyProfile.score]
                        /\ personalFactors' = allergyProfile.factors
                        /\ pc' = IF allergyProfile.threw THEN "threw" ELSE "historical"
                   ELSE /\ confidence' = BaseConfidence
                        /\ riskFactors' = [NoRiskFactors EXCEPT
                                             !.environmental = QInt(environmental)]
                        /\ personalFactors' = <<>>
                        /\ pc' = "temporal"

(***************************************************************************)
(* src/backend/ml_models/data_processor.js                                 *)
(*                                                                         *)
(* A timestamp is [kind, at]: an ISO string, a Firestore timestamp or a    *)
(* Date standing for the instant at, or a value of another kind (a number) *)
(* that the code replaces by the current time.                             *)
(***************************************************************************)
\* lines 82-92, 176-184, 200-208: the Date of a timestamp
DateOf(ts, now) ==
    IF ts.kind \in {"string", "firestore", "date"} THEN ts.at ELSE now

\* _mean, of integers
mean(arr) == IF Len(arr) = 0 THEN QInt(0) ELSE Q(SeqSum(arr), Len(arr))

\* _mean, of fractions
meanQ(arr) == IF Len(arr) = 0 THEN QInt(0) ELSE QDivInt(QSum(arr), Len(arr))

\* the square of _std: the variance of the values
stdSquared(arr) ==
    IF Len(arr) = 0 THEN QInt(0)
    ELSE LET m == meanQ(arr)
         IN  QDivInt(QSum([i \in 1..Len(arr) |->
                              QMul(QSub(arr[i], m), QSub(arr[i], m))]),
                     Len(arr))

\* _std(arr) > bound, for a bound >= 0
stdGreater(arr, bound) == QLt(QMul(bound, bound), stdSquared(arr))

SeasonalThreshold == Q(15, 10)

\* an empty result that reports a seasonal pattern
EmptyPatterns_Seasonal ==
    [daily_pattern |-> <<>>, monthly_pattern |-> <<>>, has_seasonal_pattern |-> TRUE]

\* lines 68-72 and 100-104
EmptyPatterns ==
    [daily_pattern |-> <<>>, monthly_pattern |-> <<>>, has_seasonal_pattern |-> FALSE]

SeasonMonths ==
    [spring |-> <<3, 4, 5>>, summer |-> <<6, 7, 8>>, fall |-> <<9, 10, 11>>,
     winter |-> <<12, 1, 2>>]

\* lines 79-97: the reports that have a timestamp, as [ts, severity]
TimedReports(severityHistory, now) ==
    LET timed == SelectSeq(severityHistory, LAMBDA report : ~IsAbsent(report.timestamp))
    IN  [i \in 1..Len(timed) |->
            [ts |-> DateOf(Val(timed[i].timestamp), now),
             severity |-> NumOr(timed[i].severity, 0)]]

\* each group stands for its first severity, not for the mean of them all
GroupMeans_First(keys, severities) ==
    LET indices(k) == SelectSeq([i \in 1..Len(keys) |-> i], LAMBDA i : keys[i] = k)
    IN  [k \in Range(keys) |-> QInt(severities[indices(k)[1]])]

\* lines 109-120 and 124-135: the severities grouped by the key (hour or
\* month) at the same index, and the mean of each group
GroupMeans(keys, severities) ==
    LET indices(k) == SelectSeq([i \in 1..Len(keys) |-> i], LAMBDA i : keys[i] = k)
    IN  [k \in Range(keys) |->
            mean([j \in 1..Len(indices(k)) |-> severities[indices(k)[j]]])]

MonthNumber(t) == getMonth(t) + 1

\* lines 138-141: the mean of the monthly means of a season
SeasonMean(monthlyPattern, months) ==
    LET present == SelectSeq(months, LAMBDA m : m \in DOMAIN monthlyPattern)
    IN  meanQ([i \in 1..Len(present) |-> monthlyPattern[present[i]]])

extractTemporalPatterns(severityHistoryArg, now) ==
    IF IsAbsent(severityHistoryArg) \/ Len(Val(severityHistoryArg)) = 0
    THEN EmptyPatterns
    ELSE LET reports == TimedReports(Val(severityHistoryArg), now)
             severities == [i \in 1..Len(reports) |-> reports[i].severity]
             hours == [i \in 1..Len(reports) |-> getHours(reports[i].ts)]
             dailyPattern == GroupMeans(hours, severities)
             months == [i \in 1..Len(reports) |-> MonthNumber(reports[i].ts)]
             monthlyPattern == GroupMeans(months, severities)
             spring == SeasonMean(monthlyPattern, SeasonMonths.spring)
             summer == SeasonMean(monthlyPattern, SeasonMonths.summer)
             fall == SeasonMean(monthlyPattern, SeasonMonths.fall)
             winter == SeasonMean(monthlyPattern, SeasonMonths.winter)
             \* no mean is NaN: the filter of line 143 keeps the four values
             seasonalValues == <<spring, summer, fall, winter>>
         IN  IF Len(reports) = 0
             THEN EmptyPatterns
             ELSE [daily_pattern |-> dailyPattern,
                   monthly_pattern |-> monthlyPattern,
                   has_seasonal_pattern |-> stdGreater(seasonalValues, SeasonalThreshold),
                   seasonal_severity |->
                       [spring |-> spring, summer |-> summer, fall |-> fall, winter |-> winter]]

\* 24 * 60 * 60 * 1000 milliseconds, in hours
hours24 == HoursPerDay

\* lines 172-193: one entry per item of each log that has a timestamp and items
FoodData(logs, now) ==
    LET usable == SelectSeq(logs, LAMBDA log : ~IsAbsent(log.timestamp) /\ ~IsAbsent(log.items))
    IN  Flatten([i \in 1..Len(usable) |->
                    [j \in 1..Len(Val(usable[i].items)) |->
                        [item |-> Val(usable[i].items)[j],
                         timestamp |-> DateOf(Val(usable[i].timestamp), now)]]])

\* lines 196-215: the reports that have a timestamp and a severity
SeverityData(severityHistory, now) ==
    LET usable == SelectSeq(severityHistory,
                            LAMBDA report : ~IsAbsent(report.timestamp) /\ ~IsAbsent(report.severity))
    IN  [i \in 1..Len(usable) |->
            [severity |-> Val(usable[i].severity),
             timestamp |-> DateOf(Val(usable[i].timestamp), now)]]

\* a window that leaves out the report made exactly 24 hours after foodTime
RelatedSeverities_HalfOpen(severityData, foodTime) ==
    LET related == SelectSeq(severityData,
                             LAMBDA entry : /\ entry.timestamp - foodTime >= 0
                                            /\ entry.timestamp - foodTime < hours24)
    IN  [i \in 1..Len(related) |-> related[i].severity]

\* lines 225-232: the severities reported within 24 hours after foodTime
RelatedSeverities(severityData, foodTime) ==
    LET related == SelectSeq(severityData,
                             LAMBDA entry : /\ entry.timestamp - foodTime >= 0
                                            /\ entry.timestamp - foodTime <= hours24)
    IN  [i \in 1..Len(related) |-> related[i].severity]

analyzeFoodCorrelations(foodLogsArg, severityHistoryArg, now) ==
    IF \/ IsAbsent(foodLogsArg) \/ IsAbsent(severityHistoryArg)
       \/ Len(Val(foodLogsArg)) = 0 \/ Len(Val(severityHistoryArg)) = 0
    THEN <<>>
    ELSE LET foodData == FoodData(Val(foodLogsArg), now)
             severityData == SeverityData(Val(severityHistoryArg), now)
             samples(food) ==
                 Flatten([i \in 1..Len(foodData) |->
                            IF foodData[i].item = food
                            THEN RelatedSeverities(severityData, foodData[i].timestamp)
                            ELSE <<>>])
             foods == {foodData[i].item : i \in 1..Len(foodData)}
         IN  [food \in {f \in foods : Len(samples(f)) > 0} |-> mean(samples(food))]

(***************************************************************************)
(* The inputs of the model                                                 *)
(***************************************************************************)
\* the instants the wall clock passes through, in order:
\*   Tuesday 3 January 05:00, 06:00 of the same day, Saturday 3 March 18:00,
\*   and from then on one instant a month and a day and an hour later
ClockAt(i) ==
    IF i = 1 THEN 2 * HoursPerDay + 5
    ELSE IF i = 2 THEN 2 * HoursPerDay + 6
    ELSE 2 * HoursPerMonth + 2 * HoursPerDay + 18
         + (i - 3) * (HoursPerMonth + HoursPerDay + 1)

ClockTimes == {ClockAt(i) : i \in 1..MaxClock}

Reading(risk, quality, weather, humidity, wind, rich) ==
    [pollen_risk         |-> risk,
     pollen_count        |-> IF rich THEN Some(1200) ELSE Absent,
     pollen_types        |-> IF rich THEN Some(<<"Ragweed", "Pine", "Oak">>) ELSE Absent,
     air_quality         |-> quality,
     aqi                 |-> Absent,
     pm25                |-> Absent,
     pm2_5               |-> IF rich THEN Some(60) ELSE Absent,
     ozone               |-> IF rich THEN Some(150) ELSE Absent,
     weather_condition   |-> weather,
     humidity            |-> humidity,
     wind_speed          |-> wind,
     temperature         |-> IF rich THEN Some(30) ELSE Absent,
     barometric_pressure |-> IF rich THEN Some(990) ELSE Absent]

PollenRisks ==
    {Absent, Some("very_low"), Some("low"), Some("moderate"), Some("high"), Some("very_high")}
\* air_quality, and whether the optional measurements are given
AirQualities ==
    {<<Absent, FALSE>>, <<Some(3), FALSE>>, <<Some(3), TRUE>>, <<Some(250), FALSE>>,
     <<Some(250), TRUE>>}
\* weather_condition, humidity, wind_speed
Weathers ==
    {<<Absent, Absent, Absent>>,
     <<Absent, Some(85), Absent>>,
     <<Some("Thunderstorm"), Some(85), Some(20)>>,
     <<Some("Light Rain"), Some(20), Some(10)>>,
     <<Some("Clear"), Some(50), Some(20)>>}

Readings ==
    {Absent} \cup
    {Some(Reading(risk, q[1], w[1], w[2], w[3], q[2])) :
        risk \in PollenRisks, q \in AirQualities, w \in Weathers}

\* the reaction history every profile history is a prefix of
ReactionAt(i) ==
    IF i = 1 THEN [timestamp |-> Some(HoursPerDay + 16), severity |-> Some(8),
                   weather_condition |-> Some("Light Rain")]
    ELSE IF i = 2 THEN [timestamp |-> Some(2 * HoursPerMonth + 2 * HoursPerDay + 12),
                        severity |-> Absent, weather_condition |-> Some("light rain showers")]
    ELSE IF i = 3 THEN [timestamp |-> Absent, severity |-> Some(5),
                        weather_condition |-> Some("Rain")]
    ELSE [timestamp |-> Some(HoursPerDay + 16 + i), severity |-> Some(2),
          weather_condition |-> Absent]

Reactions(k) == [i \in 1..k |-> ReactionAt(i)]

SomeFoodLogs ==
    <<[items |-> Some(<<"Peanut Butter", "Bread">>), timestamp |-> Some(HoursPerDay + 8)],
      [items |-> Absent, timestamp |-> Some(HoursPerDay + 12)]>>

\* allergens, allergy_severity
Allergies ==
    {<<Absent, Absent>>,
     <<Some(<<>>), Absent>>,
     <<Some(<<"Grass Pollen">>), Some("Grass Pollen" :> "severe")>>,
     <<Some(<<"Cat", "Dog", "Dust Mites", "Peanuts">>), Some("Cat" :> "mild")>>}
\* allergy_reactions, food_logs
Histories ==
    {<<Absent, Absent>>} \cup {<<Some(Reactions(k)), Some(SomeFoodLogs)>> : k \in {0, MaxReactions}}
\* medications, recent_medication_taken, activity_patterns
Treatments ==
    {<<Absent, Absent, Absent>>,
     <<Some(<<[name |-> Some("Zyrtec"), type |-> Some("Antihistamine")]>>), Some(TRUE),
       Some([weekday |-> Some([outdoor_time |-> Some(5)]), weekend |-> Absent])>>,
     <<Some(<<[name |-> Some("Aspirin"), type |-> Absent],
              [name |-> Absent, type |-> Some("Nasal steroid")]>>), Some(FALSE),
       Some([weekday |-> Some([outdoor_time |-> Absent]),
             weekend |-> Some([outdoor_time |-> Some(6)])])>>}

Profile(a, h, t) ==
    [allergens |-> a[1], allergy_severity |-> a[2],
     allergy_reactions |-> h[1], food_logs |-> h[2],
     medications |-> t[1], recent_medication_taken |-> t[2], activity_patterns |-> t[3]]

Profiles ==
    {Absent} \cup {Some(Profile(a, h, t)) : a \in Allergies, h \in Histories, t \in Treatments}

(***************************************************************************)
(* The actions of calculateAllergyRisk                                     *)
(***************************************************************************)
DataInit ==
    /\ called = "none"
    /\ history = Absent
    /\ foodLogs = Absent
    /\ patterns = NoResult
    /\ correlations = NoResult

\* fetchEnvironmentalData has not been called
FetchInit ==
    /\ fetchPc = "idle"
    /\ retryCount = 0
    /\ attempts = 0
    /\ failures = <<>>
    /\ fetched = NoResult

\* App before the first auth-state event: the useState initial values
\* (user null, setupComplete false, initializing true); no document exists
Uids == {"alice", "bob", "carol"}
AppInit ==
    /\ appUser = Absent
    /\ setupComplete = FALSE
    /\ initializing = TRUE
    /\ reads = <<>>
    /\ userDocs = [u \in Uids |-> Absent]

\* UserProvider after the effect has run: userData null, loading true, the
\* closure variable unsubscribeUserSnapshot null
ProviderInit ==
    /\ authUser = Absent
    /\ listeners = {}
    /\ unsubscribeUserSnapshot = Absent
    /\ contextUserData = Absent
    /\ loading = TRUE
    /\ mounted = TRUE
    /\ delivered = Absent

\* predict has not been called
PredictInit ==
    /\ predictData = Absent
    /\ prediction = NoResult

OtherInit == FetchInit /\ AppInit /\ ProviderInit /\ PredictInit

Init ==
    /\ clock \in ClockTimes
    /\ pc = "idle"
    /\ environmentalData = Absent
    /\ userData = Absent
    /\ riskFactors = NoRiskFactors
    /\ subScores = NoSubScores
    /\ detailedFactors = <<>>
    /\ personalFactors = <<>>
    /\ confidence = QInt(0)
    /\ weights = NoWeights
    /\ result = NoResult
    /\ prev = NoResult
    /\ DataInit
    /\ OtherInit

\* calculateAllergyRisk(env, user) is called
Call ==
    /\ pc = "idle"
    /\ \E env \in Readings, user \in Profiles : Enter(env, user)
    /\ prev' = NoResult
    /\ UNCHANGED clock
    /\ UNCHANGED <<dataVars, otherVars>>

\* lines 66-69
Historical ==
    /\ pc = "historical"
    /\ LET historicalData ==
               analyzeHistoricalPatterns(userData, Val(environmentalData), clock)
       IN  IF historicalData.threw
           THEN Throw
           ELSE /\ riskFactors' = [riskFactors EXCEPT
                                     !.personal = QAdd(@, historicalData.score)]
                /\ personalFactors' = personalFactors \o historicalData.factors
                /\ pc' = "exposure"
                /\ UNCHANGED <<subScores, detailedFactors, confidence, weights, result>>
    /\ UNCHANGED <<clock, environmentalData, userData, prev>>
    /\ UNCHANGED <<dataVars, otherVars>>

\* lines 71-79
Exposure ==
    /\ pc = "exposure"
    /\ LET exposureData == analyzeRecentExposure(userData, clock)
           medicationData == analyzeMedicationImpact(userData)
       IN  IF exposureData.threw \/ medicationData.threw
           THEN Throw
           ELSE /\ riskFactors' = [riskFactors EXCEPT
                                     !.personal = QAdd(QAdd(@, exposureData.score),
                                                       medicationData.score)]
                /\ personalFactors' = personalFactors \o exposureData.factors
                                        \o medicationData.factors
                /\ pc' = "temporal"
                /\ UNCHANGED <<subScores, detailedFactors, confidence, weights, result>>
    /\ UNCHANGED <<clock, environmentalData, userData, prev>>
    /\ UNCHANGED <<dataVars, otherVars>>

\* lines 82-128
Score ==
    /\ pc = "temporal"
    /\ LET e == Val(environmentalData)
           temporalData == analyzeTemporalFactors(e, userData, clock)
           withTemporal == [riskFactors EXCEPT !.temporal = QInt(temporalData.score)]
           synergisticData == analyzeSynergisticEffects(e, userData, withTemporal)
           rf == [withTemporal EXCEPT !.synergistic = QInt(synergisticData.score)]
           detailed == detailedFactors \o temporalData.factors \o synergisticData.factors
           w == Weights(userData)
           totalScore == TotalScore(rf, w)
           riskLevel == determineRiskLevel(totalScore, confidence)
           allFactors == detailed \o personalFactors
           recommendations ==
               generateEnhancedRecommendations(riskLevel.level, allFactors, userData, e)
       IN  /\ riskFactors' = rf
           /\ detailedFactors' = detailed
           /\ weights' = w
           /\ result' = Assessment(riskLevel, totalScore, allFactors, recommendations,
                                   userData, confidence, rf, w)
           /\ pc' = "done"
    /\ UNCHANGED <<clock, environmentalData, userData, subScores, personalFactors,
                   confidence, prev>>
    /\ UNCHANGED <<dataVars, otherVars>>

\* the caller takes the result (or catches the exception)
Return ==
    /\ pc \in {"done", "threw"}
    /\ pc' = "idle"
    /\ environmentalData' = Absent
    /\ userData' = Absent
    /\ riskFactors' = NoRiskFactors
    /\ subScores' = NoSubScores
    /\ detailedFactors' = <<>>
    /\ personalFactors' = <<>>
    /\ confidence' = QInt(0)
    /\ weights' = NoWeights
    /\ result' = NoResult
    /\ prev' = NoResult
    /\ UNCHANGED clock
    /\ UNCHANGED <<dataVars, otherVars>>

Next == Call \/ Historical \/ Exposure \/ Score \/ Return

Spec == Init /\ [][Next]_vars

(***************************************************************************)
(* SpecClock: the same call while the wall clock advances, also between    *)
(* the clock reads of one call, and the caller repeating a call with the   *)
(* arguments of the call that has just returned.                           *)
(***************************************************************************)
ClockReadings ==
    {Some(Reading(risk, Absent, Absent, Absent, Absent, FALSE)) :
        risk \in {Absent, Some("high")}}

ClockProfiles ==
    {Absent} \cup
    {Some(Profile(<<Some(<<"Grass Pollen">>), Absent>>, h, t)) :
        h \in Histories, t \in Treatments}

\* time passes
Tick ==
    /\ \E t \in ClockTimes : t > clock /\ clock' = t
    /\ UNCHANGED <<pc, environmentalData, userData, riskFactors, subScores, detailedFactors,
                   personalFactors, confidence, weights, result, prev>>
    /\ UNCHANGED <<dataVars, otherVars>>


CallClock ==
    /\ pc = "idle"
    /\ \E env \in ClockReadings, user \in ClockProfiles : Enter(env, user)
    /\ prev' = NoResult
    /\ UNCHANGED clock
    /\ UNCHANGED <<dataVars, otherVars>>

\* the caller calls again with the arguments of the call that has returned
CallAgain ==
    /\ pc = "done"
    /\ Enter(environmentalData, userData)
    /\ prev' = result
    /\ UNCHANGED clock
    /\ UNCHANGED <<dataVars, otherVars>>


NextClock == Tick \/ CallClock \/ CallAgain \/ Historical \/ Exposure \/ Score \/ Return

SpecClock == Init /\ [][NextClock]_vars

(***************************************************************************)
(* Properties of calculateAllergyRisk                                      *)
(***************************************************************************)
Returned == pc = "done"
Degraded == Returned /\ IsAbsent(environmentalData)
Assessed == Returned /\ ~IsAbsent(environmentalData)

\* C1: for every non-null reading and every profile the returned score is an
\* integer with 0 <= score <= 100.
C1_ScoreInRange ==
    Assessed => (result.score \in Int /\ 0 <= result.score /\ result.score <= 100)

\* C2: an absent reading returns level "unknown", score 0 and confidence 0 for
\* every profile, and no analyzer of the normal pipeline has contributed: the
\* call is over at once and the category totals and factor lists are untouched.
C2_DegradedResult ==
    /\ IsAbsent(environmentalData) => pc \in {"idle", "done"}
    /\ Degraded =>
        /\ result.level = "unknown"
        /\ result.score = 0
        /\ result.confidence = 0
        /\ riskFactors = NoRiskFactors
        /\ subScores = NoSubScores
        /\ detailedFactors = <<>>
        /\ personalFactors = <<>>

C2_Witness == Degraded /\ ~IsAbsent(userData) /\ HasAllergens(userData)

\* C3: the degraded result has exactly one factor in its factors list and
\* exactly one recommendation.
C3_OneFactorOneRecommendation ==
    Degraded =>
        /\ "factors" \in DOMAIN result
        /\ Len(result.factors) = 1
        /\ Len(result.recommendations) = 1

\* C4 as stated: for the reading {pollen_risk very_high, air_quality 250,
\* humidity 85} without a profile the mode is environmental-only, the pollen
\* sub-score is 50, the air-quality sub-score is 40 and the level is very_high.
C4Reading == Reading(Some("very_high"), Some(250), Absent, Some(85), Absent, FALSE)
C4Case == Assessed /\ environmentalData = Some(C4Reading) /\ IsAbsent(userData)

C4_AsStated ==
    C4Case =>
        /\ weights = [environmental |-> Q(70, 100), personal |-> QInt(0),
                      temporal |-> Q(20, 100), synergistic |-> Q(10, 100)]
        /\ result.personalizedScore = FALSE
        /\ subScores.pollen = 50
        /\ subScores.air = 40
        /\ result.level = "very_high"

\* C4 amended: for that reading without a profile, at every reference time, the
\* mode is environmental-only, the pollen sub-score is its cap 50, the
\* air-quality sub-score is 35 (the AQI tier alone, below the cap 40) and the
\* level is high.
C4_Amended ==
    C4Case =>
        /\ weights = [environmental |-> Q(70, 100), personal |-> QInt(0),
                      temporal |-> Q(20, 100), synergistic |-> Q(10, 100)]
        /\ result.personalizedScore = FALSE
        /\ subScores.pollen = PollenCap
        /\ subScores.air = 35
        /\ subScores.air < AirQualityCap
        /\ result.level = "high"

C4_Witness == C4Case /\ getHours(clock) \in 6..10

\* C5: two evaluations with the same reading and the same profile return the
\* same assessment, whatever the wall clock does between or during them.
C5_Deterministic ==
    (Returned /\ prev # NoResult) => result = prev

\* C6: the confidence is 0 for an absent reading, 70 for a reading without a
\* profile and 95 with a profile (so it lies in 0..95 and a profile never
\* lowers it).
C6_Confidence ==
    Returned =>
        /\ result.confidence =
              IF IsAbsent(environmentalData) THEN 0
              ELSE IF IsAbsent(userData) THEN 70 ELSE 95
        /\ result.confidence \in 0..95

C6_Witness == Assessed /\ ~IsAbsent(userData) /\ result.confidence = 95

C8_NeverThrows ==
    /\ pc # "threw"
    /\ result # TypeError
    /\ Returned => "level" \in DOMAIN result

C8_Witness ==
    /\ Assessed
    /\ IsAbsent(Val(environmentalData).pollen_risk)
    /\ IsAbsent(Val(environmentalData).humidity)
    /\ ~IsAbsent(userData)
    /\ IsAbsent(Val(userData).allergens)
    /\ IsAbsent(Val(userData).allergy_reactions)
    /\ IsAbsent(Val(userData).medications)

(***************************************************************************)
(* SpecData: the DataProcessor applied to bounded histories and food logs  *)
(***************************************************************************)
\* 10 July 09:00, 11 July 07:00, 5 January 14:00
InstantA == 6 * HoursPerMonth + 9 * HoursPerDay + 9
InstantB == 6 * HoursPerMonth + 10 * HoursPerDay + 7
InstantC == 4 * HoursPerDay + 14
\* 10 July 07:00 and 10:00
MealA == 6 * HoursPerMonth + 9 * HoursPerDay + 7
MealB == 6 * HoursPerMonth + 9 * HoursPerDay + 10

ReportTimestamps ==
    {Absent,
     Some([kind |-> "string", at |-> InstantA]),
     Some([kind |-> "firestore", at |-> InstantB]),
     Some([kind |-> "date", at |-> InstantC]),
     Some([kind |-> "number", at |-> InstantA])}
ReportSeverities == {Absent, Some(4), Some(6), Some(8)}

\* the reports of the histories: every severity at 10 July 09:00, and one
\* report for each other form of timestamp
Reports ==
    {r \in [timestamp : ReportTimestamps, severity : ReportSeverities] :
        \/ (~IsAbsent(r.timestamp) /\ Val(r.timestamp).kind = "string")
        \/ (~IsAbsent(r.timestamp) /\ Val(r.timestamp).kind \in {"firestore", "number"}
               /\ r.severity = Some(6))
        \/ (~IsAbsent(r.timestamp) /\ Val(r.timestamp).kind = "date" /\ r.severity = Some(4))
        \/ (IsAbsent(r.timestamp) /\ r.severity = Some(4))}

SeqsUpTo(S, n) == UNION {[1..k -> S] : k \in 0..n}

SeverityHistories == {Absent} \cup {Some(h) : h \in SeqsUpTo(Reports, MaxHistory)}

FoodLogEntries ==
    {[items |-> Some(<<"peanuts">>), timestamp |-> Some([kind |-> "firestore", at |-> MealA])],
     [items |-> Some(<<"milk", "peanuts">>), timestamp |-> Some([kind |-> "string", at |-> MealB])],
     [items |-> Absent, timestamp |-> Some([kind |-> "firestore", at |-> MealA])],
     [items |-> Some(<<"eggs">>), timestamp |-> Absent]}

FoodLogLists == {Absent} \cup {Some(l) : l \in SeqsUpTo(FoodLogEntries, MaxLogs)}

\* the histories given to analyzeFoodCorrelations
CorrelatedHistories == {Absent} \cup {Some(h) : h \in SeqsUpTo(Reports, MaxCorrelated)}

ExtractTemporalPatterns ==
    /\ called = "none"
    /\ \E h \in SeverityHistories :
        /\ history' = h
        /\ patterns' = extractTemporalPatterns(h, clock)
    /\ called' = "extractTemporalPatterns"
    /\ foodLogs' = Absent
    /\ correlations' = NoResult
    /\ UNCHANGED <<riskVars, otherVars>>

AnalyzeFoodCorrelations ==
    /\ called = "none"
    /\ \E l \in FoodLogLists, h \in CorrelatedHistories :
        /\ foodLogs' = l
        /\ history' = h
        /\ correlations' = analyzeFoodCorrelations(l, h, clock)
    /\ called' = "analyzeFoodCorrelations"
    /\ patterns' = NoResult
    /\ UNCHANGED <<riskVars, otherVars>>

\* the caller has used the result
Forget ==
    /\ called # "none"
    /\ called' = "none"
    /\ history' = Absent
    /\ foodLogs' = Absent
    /\ patterns' = NoResult
    /\ correlations' = NoResult
    /\ UNCHANGED <<riskVars, otherVars>>

InitData == Init /\ clock = ClockAt(1)

NextData == ExtractTemporalPatterns \/ AnalyzeFoodCorrelations \/ Forget

SpecData == InitData /\ [][NextData]_vars

(***************************************************************************)
(* Properties of the DataProcessor                                         *)
(***************************************************************************)
WellFormed(report) == ~IsAbsent(report.timestamp) /\ ~IsAbsent(report.severity)

\* the history without its records that lack a timestamp or a severity
WellFormedOnly(h) == IF IsAbsent(h) THEN h ELSE Some(SelectSeq(Val(h), WellFormed))

\* C9: a reaction record without timestamp or without severity is counted in no
\* aggregate: the hour, month and season means and the item means are those
\* computed from the well-formed records alone.
C9_MalformedSkipped ==
    /\ called = "extractTemporalPatterns" =>
          patterns = extractTemporalPatterns(WellFormedOnly(history), clock)
    /\ called = "analyzeFoodCorrelations" =>
          correlations = analyzeFoodCorrelations(foodLogs, WellFormedOnly(history), clock)

\* the seasons in which some report of the history falls
SeasonsWithData(h, now) ==
    LET reports == IF IsAbsent(h) THEN <<>> ELSE TimedReports(Val(h), now)
    IN  {season \in DOMAIN SeasonMonths :
            \E i \in 1..Len(reports) :
                MonthNumber(reports[i].ts) \in Range(SeasonMonths[season])}

\* C10: has_seasonal_pattern is false whenever fewer than 2 seasons contain a
\* reaction, whatever the severities in the one populated season.
C10_OneSeasonNoPattern ==
    (called = "extractTemporalPatterns" /\ Cardinality(SeasonsWithData(history, clock)) < 2)
        => patterns.has_seasonal_pattern = FALSE

\* the largest season mean exceeds the smallest by more than the bound, among
\* the given seasons of a result
SpreadGreater(p, seasons, bound) ==
    \E a \in seasons, b \in seasons :
        QLt(bound, QSub(p.seasonal_severity[a], p.seasonal_severity[b]))

\* C11: when at least 2 seasons have data, has_seasonal_pattern is true exactly
\* when the largest season mean minus the smallest is more than 1.5, over the
\* seasons that contain a reaction only.
C11_SeasonalSpread ==
    (called = "extractTemporalPatterns" /\ Cardinality(SeasonsWithData(history, clock)) >= 2)
        => (patterns.has_seasonal_pattern
               <=> SpreadGreater(patterns, SeasonsWithData(history, clock), SeasonalThreshold))

\* the history is given and none of its records has a timestamp
NoneTimed(h) ==
    /\ ~IsAbsent(h)
    /\ \A i \in 1..Len(Val(h)) : IsAbsent(Val(h)[i].timestamp)

\* C12: for an absent or empty history, and for a history none of whose records
\* has a timestamp, extractTemporalPatterns returns empty daily and monthly
\* patterns and has_seasonal_pattern false, and raises nothing.
C12_EmptyHistory ==
    (called = "extractTemporalPatterns" /\ (IsAbsent(history) \/ NoneTimed(history)))
        => /\ patterns # TypeError
           /\ DOMAIN patterns.daily_pattern = {}
           /\ DOMAIN patterns.monthly_pattern = {}
           /\ patterns.has_seasonal_pattern = FALSE

C12_Witness ==
    /\ called = "extractTemporalPatterns"
    /\ NoneTimed(history)
    /\ Len(Val(history)) = 2
    /\ ~IsAbsent(Val(history)[1].severity)
    /\ patterns = EmptyPatterns

\* the food items of the logs
FoodItems == {"peanuts", "milk", "eggs"}

\* the pairs <<i, j>> of a log entry i that lists the item and a reaction j
\* whose timestamp lies in the closed window of 24 hours after the entry's
Attributed(item) ==
    IF IsAbsent(foodLogs) \/ IsAbsent(history)
    THEN {}
    ELSE {p \in (1..Len(Val(foodLogs))) \X (1..Len(Val(history))) :
            LET log == Val(foodLogs)[p[1]]
                report == Val(history)[p[2]]
            IN  /\ ~IsAbsent(log.timestamp)
                /\ ~IsAbsent(log.items)
                /\ item \in Range(Val(log.items))
                /\ WellFormed(report)
                /\ LET t == DateOf(Val(log.timestamp), clock)
                       reported == DateOf(Val(report.timestamp), clock)
                   IN  t <= reported /\ reported <= t + HoursPerDay}

RECURSIVE SeveritySum(_)
SeveritySum(pairs) ==
    IF pairs = {} THEN 0
    ELSE LET p == CHOOSE q \in pairs : TRUE
         IN  Val(Val(history)[p[2]].severity) + SeveritySum(pairs \ {p})

Timed(h) == IF IsAbsent(h) THEN <<>> ELSE SelectSeq(Val(h), LAMBDA r : ~IsAbsent(r.timestamp))
AllRated(h) == \A i \in 1..Len(Timed(h)) : ~IsAbsent(Timed(h)[i].severity)

\* the indices of the timed records whose hour of day, or month, is k
AtHour(h, k) ==
    {i \in 1..Len(Timed(h)) : getHours(DateOf(Val(Timed(h)[i].timestamp), clock)) = k}
InMonth(h, k) ==
    {i \in 1..Len(Timed(h)) : MonthNumber(DateOf(Val(Timed(h)[i].timestamp), clock)) = k}

RECURSIVE RatedSum(_, _)
RatedSum(h, indices) ==
    IF indices = {} THEN 0
    ELSE LET i == CHOOSE j \in indices : TRUE
         IN  Val(Timed(h)[i].severity) + RatedSum(h, indices \ {i})

VeryHighAdvice ==
    <<"Avoid outdoor activities if possible",
      "Stay indoors with air purification systems running",
      "If you must go out, wear a pollen-filtering mask">>
VeryHighPersonalAdvice ==
    <<"Take all prescribed allergy medications",
      "Consider consulting your allergist for additional protection">>
PollenAdvice == "Check pollen forecasts before planning outdoor activities"

NoDuplicates(s) == \A i \in 1..Len(s), j \in 1..Len(s) : s[i] = s[j] => i = j
IsPrefix(p, s) == Len(p) <= Len(s) /\ SubSeq(s, 1, Len(p)) = p
HasPollenFactor(factors) ==
    \E i \in 1..Len(factors) : includes(toLowerCase(factors[i]), "pollen")

\* C15: for level very_high and a factor list with a pollen factor, the
\* recommendations hold every very_high base recommendation and the pollen
\* addendum, hold no string twice, and list the base advice first.
C15_VeryHighWithPollen ==
    (Assessed /\ result.level = "very_high" /\ HasPollenFactor(result.factors))
        => LET base == VeryHighAdvice
                         \o (IF IsAbsent(userData) THEN <<>> ELSE VeryHighPersonalAdvice)
           IN  /\ IsPrefix(base, result.recommendations)
               /\ \E i \in (Len(base) + 1)..Len(result.recommendations) :
                     result.recommendations[i] = PollenAdvice
               /\ NoDuplicates(result.recommendations)

C15_Witness ==
    /\ Assessed
    /\ result.level = "very_high"
    /\ ~IsAbsent(userData)
    /\ \E i \in 1..Len(result.factors) : includes(result.factors[i], "high pollen count")
    /\ result.recommendations[6] = PollenAdvice
    /\ Len(result.recommendations) > 6

\* C16: the factors list of every returned assessment holds no string twice,
\* for every reading and every profile.
C16_FactorsDeduplicated ==
    Assessed => NoDuplicates(result.factors)

\* C17: the recommendations list of every returned assessment has at most 4
\* entries, for every level, factor set and profile.
C17_AtMostFourRecommendations ==
    Assessed => Len(result.recommendations) <= 4

\* C18: when the profile records no allergens (the list is empty or absent) the
\* personal category total is 0 and no personal factor is emitted, whatever
\* the reaction history, the food logs and the medications of the profile.
C18_NoAllergensNoPersonalRisk ==
    (Assessed /\ ~IsAbsent(userData) /\ ~HasAllergens(userData))
        => /\ riskFactors.personal = QInt(0)
           /\ personalFactors = <<>>
           /\ result.breakdown.personal = 0

\* every field of the reading is absent
EmptyReading(e) == \A field \in DOMAIN e : IsAbsent(e[field])

\* the three environmental analyzers have run and nothing has been added to
\* their factors yet
EnvironmentAnalysed == pc = "temporal"

\* C19: absent reading fields are neutral: for a reading without pollen,
\* air-quality and weather fields each of the three sub-scores is 0 and the
\* environmental analyzers emit no factor, and an absent humidity adds nothing
\* to the weather sub-score.
C19_AbsentFieldsNeutral ==
    EnvironmentAnalysed =>
        /\ EmptyReading(Val(environmentalData)) =>
              /\ subScores = [pollen |-> 0, air |-> 0, weather |-> 0]
              /\ detailedFactors = <<>>
        /\ IsAbsent(Val(environmentalData).humidity) =>
              ~SomeIncludes(detailedFactors, "humidity")

\* the fixed level, description and color of a discounted score
LevelOf(s) ==
    IF QLe(s, QInt(15))
    THEN [level |-> "low", description |-> "Low Risk", color |-> "#4caf50"]
    ELSE IF QLe(s, QInt(35))
    THEN [level |-> "moderate", description |-> "Moderate Risk", color |-> "#ff9800"]
    ELSE IF QLe(s, QInt(60))
    THEN [level |-> "high", description |-> "High Risk", color |-> "#f44336"]
    ELSE [level |-> "very_high", description |-> "Very High Risk", color |-> "#d32f2f"]

\* score x 0.9 when confidence < 80, score otherwise
Discounted(score, conf) ==
    IF conf < 80 THEN QMul(QInt(score), Q(9, 10)) ELSE QInt(score)

\* C20: the level of every non-degraded assessment is the threshold
\* classification of the score it returns, discounted by 0.9 when the
\* confidence is below 80, and description and color are those of the level.
C20_LevelOfReturnedScore ==
    Assessed =>
        LET expected == LevelOf(Discounted(result.score, result.confidence))
        IN  /\ result.level = expected.level
            /\ result.description = expected.description
            /\ result.color = expected.color

\* the AQI tier of the air-quality sub-score
AqiTier(aqi) ==
    IF aqi <= 50 THEN 0
    ELSE IF aqi <= 100 THEN 5
    ELSE IF aqi <= 150 THEN 15
    ELSE IF aqi <= 200 THEN 25
    ELSE 35

\* C21: in the air-quality sub-score a reading whose pm2_5 exceeds 55 adds 10
\* and a reading whose ozone exceeds 140 adds 8, on top of the AQI tier and
\* before the cap of 40.
C21_Pm25AndOzone ==
    (pc = "temporal" /\ ~IsAbsent(Val(environmentalData).air_quality)) =>
        LET e == Val(environmentalData)
        IN  subScores.air =
                Min(AqiTier(Val(e.air_quality))
                      + (IF NumOr(e.pm2_5, 0) > 55 THEN 10 ELSE 0)
                      + (IF NumOr(e.ozone, 0) > 140 THEN 8 ELSE 0),
                    AirQualityCap)

\* the wind tiers: above 15 adds 8, above 8 adds 4, and they do not add up
WindPoints(windSpeed) == IF windSpeed > 15 THEN 8 ELSE IF windSpeed > 8 THEN 4 ELSE 0

\* the other parts of the weather sub-score
PrecipitationPoints(weather) ==
    IF includes(weather, "storm") THEN -5 ELSE IF includes(weather, "rain") THEN -3 ELSE 0
HumidityPoints(humidity) ==
    IF humidity > 80 THEN 6 ELSE IF humidity > 60 THEN 3 ELSE IF humidity < 30 THEN 2 ELSE 0

\* C22: in the weather sub-score a wind_speed above 15 adds 8 and a wind_speed
\* above 8 and at most 15 adds 4, whatever the weather_condition text is.
C22_WindTiers ==
    pc = "temporal" =>
        LET e == Val(environmentalData)
            humidity == NumOr(e.humidity, 0)
        IN  subScores.weather =
                Min(PrecipitationPoints(LowerOrEmpty(e.weather_condition))
                      + WindPoints(NumOr(e.wind_speed, 0))
                      + HumidityPoints(humidity)
                      + (IF NumOr(e.temperature, 20) > 25 /\ humidity > 50 THEN 3 ELSE 0)
                      + (IF ~IsAbsent(e.barometric_pressure) /\ Val(e.barometric_pressure) < 1000
                         THEN 2 ELSE 0),
                    WeatherCap)

\* the reactions of the profile whose recorded weather_condition contains the
\* leading word of the reading's weather_condition, in any letter case
WeatherMatches ==
    LET e == Val(environmentalData)
        recorded == Fields(userData).allergy_reactions
    IN  IF IsAbsent(e.weather_condition) \/ IsAbsent(recorded)
        THEN {}
        ELSE {i \in 1..Len(Val(recorded)) :
                /\ ~IsAbsent(Val(recorded)[i].weather_condition)
                /\ includes(toLowerCase(Val(Val(recorded)[i].weather_condition)),
                            split(toLowerCase(Val(e.weather_condition)))[1])}

\* analyzeHistoricalPatterns has just run
HistoryAnalysed == pc = "exposure"

\* C23: the historical weather-match bonus is granted exactly when at least 3
\* reactions have a recorded weather_condition containing the leading word of
\* the reading's weather_condition; a reading without weather_condition has no
\* leading word and gets no bonus.
C23_WeatherMatchBonus ==
    HistoryAnalysed =>
        (SomeIncludes(personalFactors, "Weather pattern match")
            <=> Cardinality(WeatherMatches) >= 3)

\* a recommendation to have emergency (rescue) medication at hand
EmergencyMedicationAdvised(recommendations) ==
    \/ SomeIncludes(recommendations, "emergency medication")
    \/ SomeIncludes(recommendations, "rescue medication")

\* C24: whenever the level is high or very_high and a profile is present, the
\* recommendations of the assessment include the advice to carry emergency
\* medication.
C24_EmergencyMedication ==
    (Assessed /\ ~IsAbsent(userData) /\ result.level \in {"high", "very_high"})
        => EmergencyMedicationAdvised(result.recommendations)

\* the weighted sum of four category totals, before the clamp
WeightedSum(rf, w) ==
    QSum(<<QMul(rf.environmental, w.environmental), QMul(rf.personal, w.personal),
           QMul(rf.temporal, w.temporal), QMul(rf.synergistic, w.synergistic)>>)

\* every category at the sum of its caps
CategoryCaps ==
    [environmental |-> QInt(PollenCap + AirQualityCap + WeatherCap),
     personal      |-> QInt(ProfileCap + HistoricalCap + ExposureCap + MedicationMax),
     temporal      |-> QInt(TemporalCap),
     synergistic   |-> QInt(SynergisticCap)]

\* C25: the weighted sum of the category totals is below 100 before the clamp,
\* in both modes, each category being bounded by its caps; the clamp never
\* changes the value and a score of 100 is not returned.
C25_ClampNeverActs ==
    /\ QLt(WeightedSum(CategoryCaps, Weights(Some(EmptyUser))), QInt(100))
    /\ QLt(WeightedSum(CategoryCaps, Weights(Absent)), QInt(100))
    /\ Assessed =>
          /\ \A category \in DOMAIN CategoryCaps :
                QLe(riskFactors[category], CategoryCaps[category])
          /\ QLt(WeightedSum(riskFactors, weights), QInt(100))
          /\ result.score = MathRound(WeightedSum(riskFactors, weights))
          /\ result.score < 100

C25_Witness ==
    /\ Assessed
    /\ ~IsAbsent(userData)
    /\ QLe(QInt(100), riskFactors.environmental)
    /\ QLe(QInt(60), WeightedSum(riskFactors, weights))
    /\ result.score >= 60

(***************************************************************************)
(* SpecPollen: a call, and then the same call for a reading that differs   *)
(* only by a higher pollen_risk, at the same instant                       *)
(***************************************************************************)
PollenOrder == <<"very_low", "low", "moderate", "high", "very_high">>
PollenRank(risk) == CHOOSE i \in 1..Len(PollenOrder) : PollenOrder[i] = risk

PollenReadings == {r \in Readings : ~IsAbsent(r) /\ ~IsAbsent(Val(r).pollen_risk)}

PollenProfiles ==
    {Absent} \cup
    {Some(Profile(a, <<Absent, Absent>>, <<Absent, Absent, Absent>>)) : a \in Allergies}

CallPollen ==
    /\ pc = "idle"
    /\ \E env \in PollenReadings, user \in PollenProfiles : Enter(env, user)
    /\ prev' = NoResult
    /\ UNCHANGED clock
    /\ UNCHANGED <<dataVars, otherVars>>

\* the caller calls again with a reading that differs only by a higher pollen_risk
CallHigher ==
    /\ pc = "done"
    /\ \E risk \in Range(PollenOrder) :
          /\ PollenRank(risk) > PollenRank(Val(Val(environmentalData).pollen_risk))
          /\ Enter(Some([Val(environmentalData) EXCEPT !.pollen_risk = Some(risk)]), userData)
    /\ prev' = result
    /\ UNCHANGED clock
    /\ UNCHANGED <<dataVars, otherVars>>

NextPollen == CallPollen \/ CallHigher \/ Historical \/ Exposure \/ Score \/ Return

SpecPollen == Init /\ [][NextPollen]_vars

LevelOrder == <<"low", "moderate", "high", "very_high">>
LevelRank(level) == CHOOSE i \in 1..Len(LevelOrder) : LevelOrder[i] = level

\* C26: of two readings that differ only in pollen_risk, with the same profile
\* at the same instant, the one with the higher pollen_risk gets neither a
\* lower score nor a lower level.
C26_MonotoneInPollen ==
    (Assessed /\ prev # NoResult)
        => /\ result.score >= prev.score
           /\ LevelRank(result.level) >= LevelRank(prev.level)

(***************************************************************************)
(* fetchEnvironmentalData (src/utils/helpers.js, lines 802-901)            *)
(*                                                                         *)
(* One top-level call is cut at its awaits: FetchAttempt is the try block  *)
(* of one invocation together with the catch block that follows a throw,   *)
(* up to the delay; Retry is the end of the delay and the nested call      *)
(* fetchEnvironmentalData(retryCount + 1).  The nested call is made inside *)
(* the catch block, so what it throws is not caught by the invocations     *)
(* around it: the whole call ends with that error.  getCurrentLocation     *)
(* resolves with a location in every case and is not a step of the model.  *)
(***************************************************************************)
MAX_RETRIES == 3

\* what the request of one attempt ends with: the abort of the timeout, a
\* failure of the network, or a response with a status and a body; data is
\* result.data of the backend, each of its three sections possibly null
Responses ==
    LET Aborted == [kind |-> "abort"]
        NetworkFailed == [kind |-> "network"]
        TextResponse(status, text) == [kind |-> "text", status |-> status, text |-> text]
        JsonResponse(success, data, error) ==
            [kind |-> "json", status |-> 200, text |-> "", success |-> success,
             data |-> data, error |-> error]
        BackendData(weather, air, pollen) ==
            Some([weather |-> weather, air_quality |-> air, pollen |-> pollen])
        BackendWeather == Some([temperature |-> Some(Q(43, 2)), humidity |-> Some(85),
                                wind_speed |-> Some(20), weather_condition |-> Some("Rain")])
        BackendAir == Some([aqi |-> Some(3), pm2_5 |-> Some(60)])
        BackendPollen == Some([total_pollen_count |-> Some(1200),
                               risk_level |-> Some("very_high")])
    IN  { Aborted, NetworkFailed,
          TextResponse(500, "{\"success\":false,\"error\":\"Request failed with status code 401\"}"),
          TextResponse(503, "Service Unavailable"),
          TextResponse(400, "{\"success\":false,\"error\":\"Latitude and longitude are required\"}"),
          TextResponse(404, "Cannot POST /api/environmental/current"),
          TextResponse(200, "<html>"),
          JsonResponse(FALSE, Absent, Absent),
          JsonResponse(FALSE, Absent, Some("Location service unavailable")),
          JsonResponse(TRUE, BackendData(Absent, BackendAir, Absent), Absent),
          JsonResponse(TRUE, BackendData(BackendWeather, Absent, Absent), Absent),
          JsonResponse(TRUE, BackendData(BackendWeather, BackendAir, Absent), Absent),
          JsonResponse(TRUE, BackendData(BackendWeather, BackendAir, BackendPollen), Absent) }

Thrown(name, message) == [exception |-> name, message |-> message]
IsThrown(x) == "exception" \in DOMAIN x

\* lines 856-870: the reading built from the backend's data
TransformedReading(envData) ==
    LET \* envData.section?.field || d, for a number and for a string
        FieldOr(section, field, d) ==
            IF IsAbsent(section) \/ IsAbsent(Val(section)[field])
               \/ Val(Val(section)[field]) = 0
            THEN d ELSE Val(Val(section)[field])
        TextFieldOr(section, field, d) ==
            IF IsAbsent(section) \/ IsAbsent(Val(section)[field])
               \/ Val(Val(section)[field]) = ""
            THEN d ELSE Val(Val(section)[field])
    IN
    [pollen_level |-> FieldOr(envData.pollen, "total_pollen_count", 0),
     air_quality |-> FieldOr(envData.air_quality, "aqi", 1),
     temperature |-> IF IsAbsent(envData.weather)
                        \/ IsAbsent(Val(envData.weather).temperature)
                     THEN 20
                     ELSE MathRound(Val(Val(envData.weather).temperature)),
     humidity |-> FieldOr(envData.weather, "humidity", 50),
     wind_speed |-> FieldOr(envData.weather, "wind_speed", 0),
     weather_condition |-> TextFieldOr(envData.weather, "weather_condition", "Clear"),
     pm2_5 |-> FieldOr(envData.air_quality, "pm2_5", 0),
     pollen_risk |-> TextFieldOr(envData.pollen, "risk_level", "low")]

\* lines 807-873: the try block, as a function of what the request ends with
TryBlock(response) ==
    IF response.kind = "abort" THEN Thrown("AbortError", "Aborted")
    ELSE IF response.kind = "network" THEN Thrown("TypeError", "Network request failed")
    ELSE IF ~(response.status \in 200..299)
    THEN Thrown("Error", "HTTP " \o ToString(response.status) \o ": " \o response.text)
    ELSE IF response.kind = "text"
    THEN Thrown("SyntaxError", "JSON Parse error: Unexpected token: <")
    ELSE IF response.success
    THEN IF IsAbsent(response.data)
         THEN Thrown("TypeError", "Cannot read property 'weather' of undefined")
         ELSE IF IsAbsent(Val(response.data).weather)
                 \/ IsAbsent(Val(response.data).air_quality)
         THEN Thrown("Error", "Backend APIs failed - check OpenWeather API key and logs")
         ELSE TransformedReading(Val(response.data))
    ELSE Thrown("Error", IF IsAbsent(response.error)
                         THEN "Failed to fetch environmental data"
                         ELSE Val(response.error))

\* lines 877-884
isRetryableError(error) ==
    \/ error.exception = "AbortError"
    \/ includes(error.message, "Network request failed")
    \/ includes(error.message, "timeout")
    \/ includes(error.message, "ECONNRESET")
    \/ includes(error.message, "ETIMEDOUT")
    \/ (includes(error.message, "HTTP 5") /\ includes(error.message, ":"))

\* line 886, with the bound of the retries read as inclusive
ShouldRetry_Inclusive(error, count) == isRetryableError(error) /\ count <= MAX_RETRIES

\* line 886
ShouldRetry(error, count) == isRetryableError(error) /\ count < MAX_RETRIES

\* lines 893-899: the error the call ends with
FinalError(error) ==
    Thrown("Error",
           IF error.exception = "AbortError"
           THEN "Network request timed out - please check your internet connection"
           ELSE IF includes(error.message, "fetch")
           THEN "Unable to connect to server - please check if the backend is running"
           ELSE error.message)

\* a caller calls fetchEnvironmentalData() (retryCount = 0); a finished call
\* is forgotten
FetchCall ==
    /\ fetchPc \in {"idle", "returned", "threw"}
    /\ fetchPc' = "attempting"
    /\ retryCount' = 0
    /\ attempts' = 0
    /\ failures' = <<>>
    /\ fetched' = NoResult
    /\ UNCHANGED <<riskVars, dataVars, appVars, providerVars, predictVars>>

\* one invocation sends its request and handles what comes back
FetchAttempt ==
    /\ fetchPc = "attempting"
    /\ \E response \in Responses :
         LET outcome == TryBlock(response) IN
         /\ attempts' = attempts + 1
         /\ IF ~IsThrown(outcome)
            THEN /\ fetchPc' = "returned"
                 /\ fetched' = outcome
                 /\ failures' = failures
            ELSE /\ failures' = Append(failures, [response |-> response, error |-> outcome])
                 /\ IF ShouldRetry(outcome, retryCount)
                    THEN /\ fetchPc' = "delay"
                         /\ fetched' = fetched
                    ELSE /\ fetchPc' = "threw"
                         /\ fetched' = FinalError(outcome)
    /\ UNCHANGED retryCount
    /\ UNCHANGED <<riskVars, dataVars, appVars, providerVars, predictVars>>

\* the delay is over: return fetchEnvironmentalData(retryCount + 1)
Retry ==
    /\ fetchPc = "delay"
    /\ fetchPc' = "attempting"
    /\ retryCount' = retryCount + 1
    /\ UNCHANGED <<attempts, failures, fetched>>
    /\ UNCHANGED <<riskVars, dataVars, appVars, providerVars, predictVars>>

NextFetch == FetchCall \/ FetchAttempt \/ Retry

\* every await of a call settles: the request is aborted after TIMEOUT_MS
\* and the delay is a timer
SpecFetch == InitData /\ [][NextFetch]_vars /\ WF_vars(FetchAttempt) /\ WF_vars(Retry)

\* the failures after which the call may start a further attempt: abort or
\* timeout, a failure of the network, a status 5xx
RetryableFailure(response) ==
    \/ response.kind \in {"abort", "network"}
    \/ response.kind \in {"text", "json"} /\ response.status \in 500..599

FetchFinished == fetchPc \in {"returned", "threw"}

FetchBounded ==
    /\ attempts <= MAX_RETRIES + 1
    /\ attempts = Len(failures) + (IF fetchPc = "returned" THEN 1 ELSE 0)
    /\ \A i \in 1..Len(failures) :
         (i < Len(failures) \/ fetchPc \in {"attempting", "delay", "returned"})
            => RetryableFailure(failures[i].response)
    /\ fetchPc = "returned" => ~IsThrown(fetched) /\ fetched # NoResult
    /\ fetchPc = "threw" => IsThrown(fetched) /\ Len(failures) >= 1
                            /\ fetched = FinalError(failures[Len(failures)].error)

\* C27: a call of fetchEnvironmentalData makes at most MAX_RETRIES + 1 = 4
\* requests, every request but the first follows a retryable failure (abort,
\* network failure, status 5xx) of the request before it, no request
\* follows the failure the call ends with, and every call ends: it returns a
\* reading or throws one error
C27_BoundedRetries == []FetchBounded /\ ((fetchPc = "attempting") ~> FetchFinished)

\* the fourth request has failed with a retryable failure and the call has
\* thrown
C27_Witness ==
    /\ fetchPc = "threw"
    /\ attempts = MAX_RETRIES + 1
    /\ RetryableFailure(failures[attempts].response)

(***************************************************************************)
(* App (src/App.js, lines 60-121)                                          *)
(*                                                                         *)
(* handleAuthStateChanged is cut at its await: the part before getDoc runs *)
(* when Firebase reports a user, the part after it when the read settles.  *)
(* The reads of several events are in flight together and settle in any    *)
(* order.  The handler is the one of the first render (the effect has no   *)
(* dependencies), so the initializing it tests is always true.             *)
(***************************************************************************)
MaxPending == 2

UserDoc(complete) == Some([setupComplete |-> complete])

\* SignupScreen.js:69 creates the document of the new user
SignupWrites ==
    /\ \E u \in Uids :
         /\ appUser = Some(u)
         /\ IsAbsent(userDocs[u])
         /\ userDocs' = [userDocs EXCEPT ![u] = UserDoc(FALSE)]
    /\ UNCHANGED <<appUser, setupComplete, initializing, reads>>
    /\ UNCHANGED <<riskVars, dataVars, fetchVars, providerVars, predictVars>>

\* SetupScreen.js:61 marks the setup of the signed-in user as complete
SetupWrites ==
    /\ \E u \in Uids :
         /\ appUser = Some(u)
         /\ userDocs' = [userDocs EXCEPT ![u] = UserDoc(TRUE)]
         /\ userDocs' # userDocs
    /\ UNCHANGED <<appUser, setupComplete, initializing, reads>>
    /\ UNCHANGED <<riskVars, dataVars, fetchVars, providerVars, predictVars>>

\* lines 72-75 and 87: Firebase reports user (a uid, or null after sign-out)
handleAuthStateChanged ==
    /\ \E user \in {Absent} \cup {Some(u) : u \in Uids} :
         /\ initializing \/ user # appUser
         /\ appUser' = user
         /\ IF IsAbsent(user)
            THEN /\ initializing' = FALSE
                 /\ reads' = reads
            ELSE /\ Len(reads) < MaxPending
                 /\ reads' = Append(reads, Val(user))
                 /\ initializing' = initializing
    /\ UNCHANGED <<setupComplete, userDocs>>
    /\ UNCHANGED <<riskVars, dataVars, fetchVars, providerVars, predictVars>>

Without(s, i) == SubSeq(s, 1, i - 1) \o SubSeq(s, i + 1, Len(s))

\* lines 76-82 and 87: a getDoc resolves with the document as it is now
ReadCompletes ==
    /\ \E i \in 1..Len(reads) :
         LET userDoc == userDocs[reads[i]] IN
         /\ reads' = Without(reads, i)
         /\ setupComplete' = IF IsAbsent(userDoc) THEN setupComplete
                             ELSE Val(userDoc).setupComplete
    /\ initializing' = FALSE
    /\ UNCHANGED <<appUser, userDocs>>
    /\ UNCHANGED <<riskVars, dataVars, fetchVars, providerVars, predictVars>>

\* lines 83-85 and 87: a getDoc rejects
ReadFails ==
    /\ \E i \in 1..Len(reads) : reads' = Without(reads, i)
    /\ initializing' = FALSE
    /\ UNCHANGED <<appUser, setupComplete, userDocs>>
    /\ UNCHANGED <<riskVars, dataVars, fetchVars, providerVars, predictVars>>

\* lines 92-118: what App renders
Screen ==
    IF initializing THEN "none"
    ELSE IF IsAbsent(appUser) THEN "Login"
    ELSE IF setupComplete THEN "Main"
    ELSE "Setup"

NextApp == handleAuthStateChanged \/ ReadCompletes \/ ReadFails \/ SignupWrites \/ SetupWrites

SpecApp == InitData /\ [][NextApp]_vars

\* C28: Main is shown only while a user is signed in whose own document
\* has setupComplete = true
C28_MainOnlyAfterSetup ==
    Screen = "Main" =>
        /\ ~IsAbsent(appUser)
        /\ userDocs[Val(appUser)] = UserDoc(TRUE)

(***************************************************************************)
(* UserProvider (src/context/UserContext.js, lines 91-155)                 *)
(*                                                                         *)
(* The callback of onAuthStateChanged contains no await, so one event is   *)
(* one step.  Firestore calls the callbacks of the listeners that are      *)
(* subscribed, and of no other; a listener whose error callback has run is *)
(* ended by Firestore.                                                     *)
(***************************************************************************)
\* onSnapshot(userRef, ...) : a listener on the document of uid, told apart
\* from the other subscribed listeners by its id
NewListener(subscribed, uid) ==
    [id |-> CHOOSE n \in 0..Cardinality(subscribed) :
                \A l \in subscribed : l.id # n,
     uid |-> uid]

\* lines 25-81, the earlier version: the unsubscribe function is returned
\* from the callback, where nothing calls it
Unsubscribed_Ignored(subscribed, unsubscribe) == subscribed

\* lines 103-107 and 143-146: if (unsubscribeUserSnapshot) unsubscribeUserSnapshot()
Unsubscribed(subscribed, unsubscribe) ==
    IF IsAbsent(unsubscribe) THEN subscribed ELSE subscribed \ {Val(unsubscribe)}

\* lines 99-138: Firebase reports user (a uid, or null when nobody is signed
\* in); the same user may be reported again;
\* onSnapshot returns the unsubscribe function or throws
AuthStateChanged ==
    /\ mounted
    /\ \E user \in {Absent} \cup {Some(u) : u \in Uids} :
         LET remaining == Unsubscribed(listeners, unsubscribeUserSnapshot) IN
         /\ authUser' = user
         /\ IF IsAbsent(user)
            THEN /\ listeners' = remaining
                 /\ unsubscribeUserSnapshot' = Absent
                 /\ contextUserData' = Absent
                 /\ loading' = FALSE
            ELSE \/ /\ listeners' = remaining \cup {NewListener(remaining, Val(user))}
                    /\ unsubscribeUserSnapshot' = Some(NewListener(remaining, Val(user)))
                    /\ UNCHANGED <<contextUserData, loading>>
                 \/ /\ listeners' = remaining
                    /\ unsubscribeUserSnapshot' = Absent
                    /\ loading' = FALSE
                    /\ UNCHANGED contextUserData
    /\ UNCHANGED <<mounted, delivered>>
    /\ UNCHANGED <<riskVars, dataVars, fetchVars, appVars, predictVars>>

\* lines 114-124: a subscribed listener receives a snapshot of its document
SnapshotReceived ==
    /\ \E l \in listeners, exists \in BOOLEAN, complete \in BOOLEAN :
         /\ contextUserData' = IF exists
                               THEN Some([uid |-> l.uid, setupComplete |-> complete])
                               ELSE Absent
         /\ delivered' = Some([listener |-> l, user |-> authUser, exists |-> exists])
    /\ loading' = FALSE
    /\ UNCHANGED <<authUser, listeners, unsubscribeUserSnapshot, mounted>>
    /\ UNCHANGED <<riskVars, dataVars, fetchVars, appVars, predictVars>>

\* lines 125-128: a subscribed listener fails
SnapshotError ==
    /\ \E l \in listeners : listeners' = listeners \ {l}
    /\ loading' = FALSE
    /\ UNCHANGED <<authUser, unsubscribeUserSnapshot, contextUserData, mounted, delivered>>
    /\ UNCHANGED <<riskVars, dataVars, fetchVars, appVars, predictVars>>

\* lines 140-147: the cleanup of the effect
Unmount ==
    /\ mounted
    /\ mounted' = FALSE
    /\ listeners' = Unsubscribed(listeners, unsubscribeUserSnapshot)
    /\ UNCHANGED <<authUser, unsubscribeUserSnapshot, contextUserData, loading, delivered>>
    /\ UNCHANGED <<riskVars, dataVars, fetchVars, appVars, predictVars>>

NextProvider == AuthStateChanged \/ SnapshotReceived \/ SnapshotError \/ Unmount

SpecProvider == InitData /\ [][NextProvider]_vars

\* C29: at most one snapshot listener is subscribed, it is the listener of
\* the user signed in now, none is subscribed after sign-out or unmount,
\* and every snapshot delivered came from the listener of the user who was
\* signed in when it was delivered
C29_OneListenerOfCurrentUser ==
    /\ Cardinality(listeners) <= 1
    /\ \A l \in listeners : mounted /\ authUser = Some(l.uid)
    /\ (~mounted \/ IsAbsent(authUser)) => listeners = {}
    /\ ~IsAbsent(delivered) => Val(delivered).user = Some(Val(delivered).listener.uid)

\* the user has switched from alice, whose snapshot had been delivered, to
\* bob, whose listener is the one subscribed
C29_Witness ==
    /\ authUser = Some("bob")
    /\ ~IsAbsent(unsubscribeUserSnapshot)
    /\ listeners = {Val(unsubscribeUserSnapshot)}
    /\ ~IsAbsent(delivered)
    /\ Val(delivered).listener.uid = "alice"

(***************************************************************************)
(* AllergySeverityPredictor (src/backend/ml_models/prediction_model.js,    *)
(* lines 26-209)                                                           *)
(*                                                                         *)
(* Numbers are exact fractions.  preprocessFeatures returns the features,  *)
(* or threw when the code reads a property of null or undefined.           *)
(***************************************************************************)
\* lines 26-75, with now the instant new Date() returns
preprocessFeatures(data, now) ==
    IF IsAbsent(data) THEN [threw |-> TRUE]
    ELSE
    LET d == Val(data)
        allergens == ObjOr(d.allergens, <<>>)
        severityHistory == ObjOr(d.severity_history, <<>>)
        logs == ObjOr(d.food_logs, <<>>)
        foodItems == Flatten([i \in 1..Len(logs) |->
                                 IF IsAbsent(logs[i]) THEN <<>>
                                 ELSE ObjOr(Val(logs[i]).items, <<>>)])
        envData == IF IsAbsent(d.environmental_data) \/ d.environmental_data = Some(<<>>)
                   THEN Some([data |-> Absent])
                   ELSE Val(d.environmental_data)[1]
        envDataObj == ObjOr(Val(envData).data,
                            [pollen_count |-> Absent, humidity |-> Absent,
                             temperature |-> Absent, air_quality |-> Absent])
    IN  IF (\E i \in 1..Len(logs) : IsAbsent(logs[i])) \/ IsAbsent(envData)
        THEN [threw |-> TRUE]
        ELSE [threw |-> FALSE,
              allergensCount |-> Len(allergens),
              avgSeverity |->
                  IF Len(severityHistory) > 0
                  THEN Q(SeqSum([i \in 1..Len(severityHistory) |->
                                    NumOr(severityHistory[i].severity, 0)]),
                         Len(severityHistory))
                  ELSE QInt(0),
              riskyFoodsCount |->
                  Len(SelectSeq(foodItems, LAMBDA food : food \in Range(allergens))),
              pollenLevel |-> NumOr(envDataObj.pollen_count, 0),
              humidity |-> NumOr(envDataObj.humidity, 50),
              temperature |-> NumOr(envDataObj.temperature, 20),
              airQuality |-> NumOr(envDataObj.air_quality, 50),
              month |-> getMonth(now) + 1,
              dayOfWeek |-> getDay(now)]

\* lines 124-134 with every branch that applies adding its points
RiskyFoodsPoints_Cumulative(riskyFoodsCount) ==
    (IF riskyFoodsCount > 3 THEN 4 ELSE 0) + (IF riskyFoodsCount > 1 THEN 3 ELSE 0)
        + (IF riskyFoodsCount > 0 THEN 2 ELSE 0)

\* lines 124-134
RiskyFoodsPoints(riskyFoodsCount) ==
    IF riskyFoodsCount > 3 THEN 4
    ELSE IF riskyFoodsCount > 1 THEN 3
    ELSE IF riskyFoodsCount > 0 THEN 2
    ELSE 0

\* lines 100-171: the points of each rule, with the factor it pushes
RulePoints(f) ==
    << IF f.allergensCount > 5 THEN Part(3, <<"Multiple allergens">>)
       ELSE IF f.allergensCount > 2 THEN Part(2, <<>>)
       ELSE IF f.allergensCount > 0 THEN Part(1, <<>>)
       ELSE NoPart,
       IF QLt(QInt(7), f.avgSeverity) THEN Part(3, <<"High historical severity">>)
       ELSE IF QLt(QInt(5), f.avgSeverity) THEN Part(2, <<>>)
       ELSE IF QLt(QInt(3), f.avgSeverity) THEN Part(1, <<>>)
       ELSE NoPart,
       Part(RiskyFoodsPoints(f.riskyFoodsCount),
            IF f.riskyFoodsCount > 0 THEN <<"Recent allergen exposure">> ELSE <<>>),
       IF f.pollenLevel > 80 THEN Part(3, <<"High pollen count">>)
       ELSE IF f.pollenLevel > 50 THEN Part(2, <<"Moderate pollen count">>)
       ELSE IF f.pollenLevel > 20 THEN Part(1, <<>>)
       ELSE NoPart,
       IF f.humidity > 80 THEN Part(2, <<"High humidity">>)
       ELSE IF f.humidity > 70 THEN Part(1, <<>>)
       ELSE NoPart,
       IF f.airQuality > 150 THEN Part(2, <<"Poor air quality">>)
       ELSE IF f.airQuality > 100 THEN Part(1, <<"Moderate air quality">>)
       ELSE NoPart,
       IF f.month \in {3, 4, 5, 9, 10, 11} THEN Part(2, <<"Peak allergy season">>)
       ELSE IF f.month \in {6, 7, 8} THEN Part(1, <<>>)
       ELSE NoPart >>

maxPossibleScore == 19

\* lines 202-207
DefaultPrediction ==
    [risk_level |-> QInt(5), confidence |-> Q(3, 10),
     contributing_factors |-> <<"Unable to analyze all factors",
                                "Using default risk assessment">>]

\* lines 82-209
predict(data, now) ==
    LET f == preprocessFeatures(data, now) IN
    IF f.threw THEN DefaultPrediction
    ELSE
    LET rules == RulePoints(f)
        riskScore == SeqSum([i \in 1..Len(rules) |-> rules[i].s])
        pushed == Flatten([i \in 1..Len(rules) |-> rules[i].f])
        conf == QSum(<< Q(1, 2),
                        IF QLt(QInt(0), f.avgSeverity) THEN Q(15, 100) ELSE QInt(0),
                        IF f.riskyFoodsCount > 0 THEN Q(15, 100) ELSE QInt(0),
                        IF f.pollenLevel > 0 THEN Q(1, 10) ELSE QInt(0),
                        IF f.airQuality > 0 THEN Q(1, 10) ELSE QInt(0) >>)
        contributingFactors ==
            IF Len(pushed) = 0
            THEN <<"Environmental factors", "Seasonal patterns", "Personal history">>
            ELSE IF Len(pushed) = 1
            THEN pushed \o <<"Environmental conditions", "Personal allergy profile">>
            ELSE IF Len(pushed) = 2 THEN Append(pushed, "Seasonal patterns")
            ELSE pushed
    IN  [risk_level |-> QMul(Q(riskScore, maxPossibleScore), QInt(10)),
         confidence |-> QMin(conf, Q(95, 100)),
         contributing_factors |-> SubSeq(contributingFactors, 1,
                                         Min(5, Len(contributingFactors)))]

\* the arguments of predict: no data at all, or data whose fields are
\* missing, empty or filled
PredictInputs ==
    LET PredictAllergens ==
            {Absent, Some(<<"Peanuts">>), Some(<<"Peanuts", "Milk", "Eggs">>),
             Some(<<"Peanuts", "Milk", "Eggs", "Soy", "Wheat", "Fish">>)}
        PredictHistories ==
            {Absent, Some(<<>>), Some(<<[severity |-> Some(4)], [severity |-> Absent]>>),
             Some(<<[severity |-> Some(4)]>>), Some(<<[severity |-> Some(6)]>>),
             Some(<<[severity |-> Some(8)], [severity |-> Some(10)]>>)}
        PredictFoodLogs ==
            {Absent, Some(<<Absent>>), Some(<<Some([items |-> Absent])>>),
             Some(<<Some([items |-> Some(<<"Peanuts", "Rice">>)])>>),
             Some(<<Some([items |-> Some(<<"Peanuts", "Milk">>)]),
                    Some([items |-> Some(<<"Rice">>)])>>),
             Some(<<Some([items |-> Some(<<"Peanuts", "Milk">>)]),
                    Some([items |-> Some(<<"Eggs", "Peanuts">>)])>>)}
        PredictEnvironments ==
            {Absent, Some(<<>>), Some(<<Absent>>), Some(<<Some([data |-> Absent])>>)}
            \cup {Some(<<Some([data |-> Some([pollen_count |-> p, humidity |-> h,
                                               temperature |-> Some(25),
                                               air_quality |-> a])])>>) :
                    p \in {Absent, Some(30), Some(90)}, h \in {Some(75), Some(85)},
                    a \in {Some(0), Some(120), Some(160)}}
    IN  {Absent} \cup
        {Some([allergens |-> a, severity_history |-> s, food_logs |-> l,
               environmental_data |-> e]) :
            a \in PredictAllergens, s \in PredictHistories, l \in PredictFoodLogs,
            e \in PredictEnvironments}
\* an instant in January, in March and in July
PredictTimes == {ClockAt(1), 2 * HoursPerMonth + ClockAt(1), 6 * HoursPerMonth + ClockAt(1)}

\* predict(data) is called at the instant now
Predict ==
    /\ prediction = NoResult
    /\ \E data \in PredictInputs, now \in PredictTimes :
         /\ predictData' = Some([data |-> data, now |-> now])
         /\ prediction' = predict(data, now)
    /\ UNCHANGED <<riskVars, dataVars, fetchVars, appVars, providerVars>>

\* the caller is done with the prediction
ForgetPrediction ==
    /\ prediction # NoResult
    /\ predictData' = Absent
    /\ prediction' = NoResult
    /\ UNCHANGED <<riskVars, dataVars, fetchVars, appVars, providerVars>>

NextPredict == Predict \/ ForgetPrediction

SpecPredict == InitData /\ [][NextPredict]_vars

Predicted == prediction # NoResult

\* C30: predict returns a prediction with risk_level in [0, 10] and
\* confidence in [0.3, 0.95]: the points of the rules sum to at most
\* maxPossibleScore = 19, and data the features cannot be read from gets the
\* fallback 5.0 / 0.3
C30_PredictionInRange ==
    Predicted =>
        /\ QLe(QInt(0), prediction.risk_level) /\ QLe(prediction.risk_level, QInt(10))
        /\ QLe(Q(3, 10), prediction.confidence) /\ QLe(prediction.confidence, Q(95, 100))
        /\ LET f == preprocessFeatures(Val(predictData).data, Val(predictData).now) IN
           IF f.threw
           THEN prediction.risk_level = QInt(5) /\ prediction.confidence = Q(3, 10)
           ELSE LET rules == RulePoints(f) IN
                SeqSum([i \in 1..Len(rules) |-> rules[i].s]) \in 0..(3 + 3 + 4 + 3 + 2 + 2 + 2)

\* every rule gives its maximum: the risk is 10 and the confidence is capped
C30_Witness ==
    /\ Predicted
    /\ prediction.risk_level = QInt(10)
    /\ prediction.confidence = Q(95, 100)

====
